---- MODULE Spec2Model ----
(***************************************************************************)
(* Model of the ml-service of the travel platform:                         *)
(*   - ModelTrainer.save_model / load_model over the artifact store        *)
(*     (services/model_trainer.py), one version directory with its         *)
(*     temp_<version> and <version>_backup siblings;                       *)
(*   - PersonaModel train / predict / save / load with its prediction      *)
(*     cache (models/persona_model.py);                                    *)
(*   - RecommendationModel train / update / predict                        *)
(*     (models/recommendation_model.py).                                   *)
(* File-system calls are the atomic steps of save_model and load_model, so *)
(* that a crash or another process can fall between any two of them.       *)
(***************************************************************************)
EXTENDS Integers, Sequences, FiniteSets, TLC

\* ------------------------------------------------------------------ bounds
\* Number of save_model calls that may be started (each call is one bundle id).
MaxSaves == 3

\* ================================================================ the store
\* A directory of the store.  Every part holds 0 (file absent), id > 0 (written
\* completely by save_model call id) or Torn (left incomplete by a failed write).
\*   w  : <dir>/model/model             keras model        (PersonaModel.save)
\*   mp : <dir>/model/preprocessor      model's own preprocessor state
\*   ms : <dir>/model/model_state.npy   model state record
\*   pp : <dir>/preprocessor            trainer's preprocessor state
\*   md : <dir>/metadata.npy            metadata record
\* mt is the model_type the metadata record names ("" while md is not complete).
Parts == {"w", "mp", "ms", "pp", "md"}

Torn == -1

Absent == [exists |-> FALSE, w |-> 0, mp |-> 0, ms |-> 0, pp |-> 0, md |-> 0, mt |-> ""]

EmptyDir == [exists |-> TRUE, w |-> 0, mp |-> 0, ms |-> 0, pp |-> 0, md |-> 0, mt |-> ""]

\* model_trainer.py 78-81: every model type but 'recommendation' gets a PersonaModel;
\* trainers of these types write bundles of the same layout.
ModelTypes == {"nlp", "sentiment"}

\* The model type of the trainer that calls load_model.
LoaderType == "nlp"

Savers == {"s1", "s2"}

\* The process whose save_model calls follow one another in SpecStore.
SeqSavers == {"s1"}

VARIABLES
    fs,        \* [temp, final, backup] -> directory: the three paths of the version
    sv,        \* per saving process: position in save_model and its locals
    ld,        \* the loading process: position in load_model, what it read, its trainer
    nextId     \* id of the next save_model call

storeVars == <<fs, sv, ld, nextId>>

VARIABLES
    model,     \* the model object the process works on (model_trainer.py 78-81)
    pm,        \* PersonaModel: weights, preprocessor, model_state, _prediction_cache
    pm_src,    \* per cache entry: the weights, preprocessor and input that computed it
    pm_ret,    \* per input: the pair predict(use_cache=True) returned for it since the
               \* last train or load call
    pm_disk,   \* the directory PersonaModel.save writes and load reads
    rm,        \* RecommendationModel: weights, preprocessor, model_state
    out,       \* the last call: what was asked and what came back
    nextW      \* id of the next weights

modelVars == <<model, pm, pm_src, pm_ret, pm_disk, rm, out, nextW>>

VARIABLES
    dp,        \* the DataPreprocessor objects: state record, transformers, cache
    dp_disk,   \* the directory save_state writes and load_state reads
    dp_out,    \* the last DataPreprocessor call: what was asked and whether it returned
    nfits      \* number of fit_transform calls so far

dataVars == <<dp, dp_disk, dp_out, nfits>>

VARIABLES
    tm_out,    \* the last train_model call: the data, whether model.train was invoked
    tm_calls   \* number of times train_model invoked model.train

trainerVars == <<tm_out, tm_calls>>

VARIABLES
    mmr,       \* one call of RecommendationModel._enhance_diversity, step by step
    cc         \* one call of RecommendationModel._calculate_confidence

rankVars == <<mmr, cc>>

VARIABLES
    cfg,       \* a ModelConfig: the loaded configuration and the getters' caches
    cfg_out    \* the last call on the ModelConfig

configVars == <<cfg, cfg_out>>

vars == <<fs, sv, ld, nextId, model, pm, pm_src, pm_ret, pm_disk, rm, out, nextW,
          dp, dp_disk, dp_out, nfits, tm_out, tm_calls, mmr, cc, cfg, cfg_out>>

IsEmpty(d) == d.w = 0 /\ d.mp = 0 /\ d.ms = 0 /\ d.pp = 0 /\ d.md = 0

\* A bundle as section 3 of the design defines it: every part present, complete and
\* written by one and the same save_model call.
Complete(d) ==
    /\ d.exists
    /\ d.w > 0
    /\ d.mp = d.w /\ d.ms = d.w /\ d.pp = d.w /\ d.md = d.w

SvIdle == [pc |-> "idle", id |-> 0, model_type |-> "", model_saved |-> FALSE,
           preprocessor_saved |-> FALSE, result |-> "none", before |-> Absent,
           had_backup |-> FALSE, published |-> FALSE, wfail |-> FALSE]

\* md: the bundle whose metadata this load_model call read; mem: what the loading
\* trainer holds in memory (model weights, the model's preprocessor, model state, the
\* trainer's preprocessor), 0 being the state of a freshly constructed trainer.
\* mt: what the call saw of the version ("missing": no directory; else the model type
\* of the metadata it read); before: mem when the call began.
NewTrainer == [w |-> 0, mp |-> 0, ms |-> 0, pp |-> 0]

LdIdle == [pc |-> "idle", result |-> "none", md |-> 0, mt |-> "",
           mem |-> NewTrainer, before |-> NewTrainer]

\* The outcome of writing part f of directory d for call id: the file holds the new
\* content when the write succeeds; a failed write leaves the old file or a torn one.
WriteOutcomes(d, f, id, ok) ==
    IF ok THEN {[d EXCEPT ![f] = id]}
    ELSE {d, [d EXCEPT ![f] = Torn]}

\* keras Model.save and save_state (data_preprocessor.py 218-219, mkdir(parents=True,
\* exist_ok=True)) create the missing directories above the file they write.
WithParents(d) == IF d.exists THEN d ELSE EmptyDir

\* save_model returns res: the call's locals are gone; its result, and whether one
\* of its write steps failed (wf), stay readable until the next call.
Return(p, res, wf) == sv' = [sv EXCEPT ![p] = [SvIdle EXCEPT !.result = res, !.wfail = wf]]

\* os.rename(src, dst) on directories (POSIX): fails when src is missing or dst is a
\* non-empty directory; otherwise dst becomes src and src disappears.
RenameOk(src, dst) == fs[src].exists /\ (~fs[dst].exists \/ IsEmpty(fs[dst]))

Renamed(src, dst) == [fs EXCEPT ![dst] = fs[src], ![src] = Absent]

\* model_trainer.py 204-207: paths and os.makedirs(temp_path, exist_ok=True).
\* In SpecStore one save_model runs at a time (concurrent = FALSE).
save_model_begin(p, concurrent) ==
    /\ sv[p].pc = "idle"
    /\ nextId <= MaxSaves
    /\ concurrent \/ \A q \in Savers : sv[q].pc = "idle"
    /\ fs' = [fs EXCEPT !.temp = IF fs.temp.exists THEN fs.temp ELSE EmptyDir]
    /\ \E t \in ModelTypes :
         sv' = [sv EXCEPT ![p] = [pc |-> "model_w", id |-> nextId, model_type |-> t,
                                  model_saved |-> FALSE, preprocessor_saved |-> FALSE,
                                  result |-> "none", before |-> fs.final,
                                  had_backup |-> fs.backup.exists,
                                  published |-> FALSE, wfail |-> FALSE]]
    /\ nextId' = nextId + 1
    /\ UNCHANGED <<ld, modelVars, dataVars, trainerVars, rankVars, configVars>>

\* persona_model.py 356: self.model.save(path/model).  An exception ends
\* PersonaModel.save with False (367-369); save_model goes on to line 211.
save_model_weights(p) ==
    /\ sv[p].pc = "model_w"
    /\ \E ok \in BOOLEAN :
        /\ \E d \in WriteOutcomes(WithParents(fs.temp), "w", sv[p].id, ok) : fs' = [fs EXCEPT !.temp = d]
        /\ sv' = [sv EXCEPT ![p].pc = IF ok THEN "model_mp" ELSE "pre",
                            ![p].wfail = sv[p].wfail \/ ~ok]
    /\ UNCHANGED <<ld, nextId, modelVars, dataVars, trainerVars, rankVars, configVars>>

\* persona_model.py 359: self.preprocessor.save_state(path/preprocessor).  save_state
\* reports a failure by returning False (data_preprocessor.py 239-241) and the value
\* is dropped here, so PersonaModel.save continues either way.
save_model_model_preprocessor(p) ==
    /\ sv[p].pc = "model_mp"
    /\ \E ok \in BOOLEAN :
        /\ \E d \in WriteOutcomes(WithParents(fs.temp), "mp", sv[p].id, ok) : fs' = [fs EXCEPT !.temp = d]
        /\ sv' = [sv EXCEPT ![p].pc = "model_ms", ![p].wfail = sv[p].wfail \/ ~ok]
    /\ UNCHANGED <<ld, nextId, modelVars, dataVars, trainerVars, rankVars, configVars>>

\* persona_model.py 362-365: np.save(path/model_state.npy); return True.
save_model_model_state(p) ==
    /\ sv[p].pc = "model_ms"
    /\ fs.temp.exists
    /\ \E ok \in BOOLEAN :
        /\ \E d \in WriteOutcomes(fs.temp, "ms", sv[p].id, ok) : fs' = [fs EXCEPT !.temp = d]
        /\ sv' = [sv EXCEPT ![p].pc = "pre", ![p].model_saved = ok,
                            ![p].wfail = sv[p].wfail \/ ~ok]
    /\ UNCHANGED <<ld, nextId, modelVars, dataVars, trainerVars, rankVars, configVars>>

\* model_trainer.py 211-215: preprocessor.save_state(temp/preprocessor), then
\* "if not (model_saved and preprocessor_saved): raise", caught at 244-246.
save_model_preprocessor(p) ==
    /\ sv[p].pc = "pre"
    /\ \E ok \in BOOLEAN :
        /\ \E d \in WriteOutcomes(WithParents(fs.temp), "pp", sv[p].id, ok) : fs' = [fs EXCEPT !.temp = d]
        /\ IF sv[p].model_saved /\ ok
           THEN sv' = [sv EXCEPT ![p].pc = "meta", ![p].preprocessor_saved = TRUE]
           ELSE Return(p, "false", TRUE)
    /\ UNCHANGED <<ld, nextId, modelVars, dataVars, trainerVars, rankVars, configVars>>

\* model_trainer.py 218-230: np.save(temp/metadata.npy, metadata).
save_model_metadata(p) ==
    /\ sv[p].pc = "meta"
    /\ fs.temp.exists
    /\ \E ok \in BOOLEAN :
        /\ \E d \in WriteOutcomes(fs.temp, "md", sv[p].id, ok) :
               fs' = [fs EXCEPT !.temp =
                         [d EXCEPT !.mt = IF d.md = sv[p].id THEN sv[p].model_type
                                          ELSE IF d.md > 0 THEN d.mt ELSE ""]]
        /\ IF ok
           THEN sv' = [sv EXCEPT ![p].pc = "chk_final"]
           ELSE Return(p, "false", TRUE)
    /\ UNCHANGED <<ld, nextId, modelVars, dataVars, trainerVars, rankVars, configVars>>

\* np.save creates no directory: with the temp directory renamed away by another
\* process the write of model_state.npy or metadata.npy fails.  Reachable only when
\* save_model calls overlap.
save_model_write_no_dir(p) ==
    /\ sv[p].pc \in {"model_ms", "meta"}
    /\ ~fs.temp.exists
    /\ IF sv[p].pc = "model_ms"
       THEN sv' = [sv EXCEPT ![p].pc = "pre", ![p].wfail = TRUE]
       ELSE Return(p, "false", TRUE)
    /\ UNCHANGED <<fs, ld, nextId, modelVars, dataVars, trainerVars, rankVars, configVars>>

\* model_trainer.py 233: if os.path.exists(final_path).
save_model_check_final(p) ==
    /\ sv[p].pc = "chk_final"
    /\ sv' = [sv EXCEPT ![p].pc = IF fs.final.exists THEN "mv_backup" ELSE "mv_final"]
    /\ UNCHANGED <<fs, ld, nextId, modelVars, dataVars, trainerVars, rankVars, configVars>>

\* model_trainer.py 234: os.rename(final_path, final_path + "_backup").
save_model_rename_backup(p) ==
    /\ sv[p].pc = "mv_backup"
    /\ IF RenameOk("final", "backup")
       THEN /\ fs' = Renamed("final", "backup")
            /\ sv' = [sv EXCEPT ![p].pc = "mv_final"]
       ELSE /\ Return(p, "false", sv[p].wfail)
            /\ UNCHANGED fs
    /\ UNCHANGED <<ld, nextId, modelVars, dataVars, trainerVars, rankVars, configVars>>

\* model_trainer.py 235: os.rename(temp_path, final_path).
save_model_rename_final(p) ==
    /\ sv[p].pc = "mv_final"
    /\ IF RenameOk("temp", "final")
       THEN /\ fs' = Renamed("temp", "final")
            /\ sv' = [sv EXCEPT ![p].pc = "chk_backup",
                                ![p].published = Complete(fs.temp) /\ fs.temp.w = sv[p].id]
       ELSE /\ Return(p, "false", sv[p].wfail)
            /\ UNCHANGED fs
    /\ UNCHANGED <<ld, nextId, modelVars, dataVars, trainerVars, rankVars, configVars>>

\* model_trainer.py 238, 241-242: if os.path.exists(backup) ...; else return True.
save_model_check_backup(p) ==
    /\ sv[p].pc = "chk_backup"
    /\ IF fs.backup.exists
       THEN sv' = [sv EXCEPT ![p].pc = "rm_backup"]
       ELSE Return(p, "true", sv[p].wfail)
    /\ UNCHANGED <<fs, ld, nextId, modelVars, dataVars, trainerVars, rankVars, configVars>>

\* model_trainer.py 239: os.remove(backup).  os.remove unlinks files only: on a
\* directory (the backup always is one) or a missing path it raises OSError, which
\* 244-246 turn into "return False".  The backup stays.
save_model_remove_backup(p) ==
    /\ sv[p].pc = "rm_backup"
    /\ Return(p, "false", sv[p].wfail)
    /\ UNCHANGED <<fs, ld, nextId, modelVars, dataVars, trainerVars, rankVars, configVars>>

\* The process dies between two steps of save_model; the store keeps what it holds.
save_model_crash(p) ==
    /\ sv[p].pc # "idle"
    /\ Return(p, "crashed", sv[p].wfail)
    /\ UNCHANGED <<fs, ld, nextId, modelVars, dataVars, trainerVars, rankVars, configVars>>

\* ------------------------------------------------------------ load_model
\* What a read of part f under the final path finds at this moment.
FinalPart(f) == IF fs.final.exists THEN fs.final[f] ELSE 0

\* load_state (data_preprocessor.py 253-276) assigns preprocessor_state, transformers
\* and cache one after the other: from a complete part it ends with that part's
\* state, from a torn part it may stop after some of the assignments, from a missing
\* part it changes nothing.  The value is what the preprocessor holds afterwards.
LoadStateOutcomes(old, v) ==
    IF v > 0 THEN {v} ELSE IF v < 0 THEN {old, v} ELSE {old}

\* model_trainer.py 262-266: the version directory must exist.
load_model_begin ==
    /\ ld.pc = "idle"
    /\ IF fs.final.exists
       THEN ld' = [ld EXCEPT !.pc = "meta", !.result = "none", !.md = 0, !.mt = "",
                             !.before = ld.mem]
       ELSE ld' = [ld EXCEPT !.result = "false", !.md = 0, !.mt = "missing",
                             !.before = ld.mem]
    /\ UNCHANGED <<fs, sv, nextId, modelVars, dataVars, trainerVars, rankVars, configVars>>

\* load_model that takes a bundle of any model type.
type_unchecked(t) == "w"

\* model_trainer.py 270-271: "if metadata['model_type'] != self.model_type: raise";
\* the position load_model goes to.
type_checked(t) == IF t = LoaderType THEN "w" ELSE "idle"

\* model_trainer.py 269-271: read metadata.npy and compare the model type.
load_model_metadata ==
    /\ ld.pc = "meta"
    /\ IF FinalPart("md") > 0
       THEN ld' = [ld EXCEPT !.md = FinalPart("md"), !.mt = FinalPart("mt"),
                             !.pc = type_checked(FinalPart("mt")),
                             !.result = IF type_checked(FinalPart("mt")) = "idle"
                                        THEN "false" ELSE "none"]
       ELSE ld' = [ld EXCEPT !.pc = "idle", !.result = "false"]
    /\ UNCHANGED <<fs, sv, nextId, modelVars, dataVars, trainerVars, rankVars, configVars>>

\* persona_model.py 384: self.model = tf.keras.models.load_model(path/model); an
\* exception ends PersonaModel.load with False (400-402) and load_model continues
\* with line 275.
load_model_weights ==
    /\ ld.pc = "w"
    /\ IF FinalPart("w") > 0
       THEN ld' = [ld EXCEPT !.pc = "mp", !.mem.w = FinalPart("w")]
       ELSE ld' = [ld EXCEPT !.pc = "pp_only"]
    /\ UNCHANGED <<fs, sv, nextId, modelVars, dataVars, trainerVars, rankVars, configVars>>

\* persona_model.py 387: self.preprocessor.load_state(path/preprocessor), its result
\* dropped.
load_model_model_preprocessor ==
    /\ ld.pc = "mp"
    /\ \E v \in LoadStateOutcomes(ld.mem.mp, FinalPart("mp")) :
           ld' = [ld EXCEPT !.pc = "ms", !.mem.mp = v]
    /\ UNCHANGED <<fs, sv, nextId, modelVars, dataVars, trainerVars, rankVars, configVars>>

\* persona_model.py 390-398: load model_state.npy, then the smoke-test inference,
\* which may raise.
load_model_model_state ==
    /\ ld.pc = "ms"
    /\ IF FinalPart("ms") > 0
       THEN \E smoke \in BOOLEAN :
               ld' = [ld EXCEPT !.pc = IF smoke THEN "pp" ELSE "pp_only",
                                !.mem.ms = FinalPart("ms")]
       ELSE ld' = [ld EXCEPT !.pc = "pp_only"]
    /\ UNCHANGED <<fs, sv, nextId, modelVars, dataVars, trainerVars, rankVars, configVars>>

\* model_trainer.py 275-288: self.preprocessor.load_state(final/preprocessor), then
\* "if not (model_loaded and preprocessor_loaded): raise", caught into return False.
\* pc "pp" is model_loaded = True, "pp_only" is model_loaded = False.
load_model_preprocessor ==
    /\ ld.pc \in {"pp", "pp_only"}
    /\ \E v \in LoadStateOutcomes(ld.mem.pp, FinalPart("pp")) :
           ld' = [ld EXCEPT !.pc = "idle",
                            !.mem.pp = v,
                            !.result = IF ld.pc = "pp" /\ FinalPart("pp") > 0
                                       THEN "true" ELSE "false"]
    /\ UNCHANGED <<fs, sv, nextId, modelVars, dataVars, trainerVars, rankVars, configVars>>

NextStore ==
    \/ \E p \in SeqSavers : save_model_begin(p, FALSE)
    \/ \E p \in SeqSavers : save_model_weights(p)
    \/ \E p \in SeqSavers : save_model_model_preprocessor(p)
    \/ \E p \in SeqSavers : save_model_model_state(p)
    \/ \E p \in SeqSavers : save_model_preprocessor(p)
    \/ \E p \in SeqSavers : save_model_metadata(p)
    \/ \E p \in SeqSavers : save_model_check_final(p)
    \/ \E p \in SeqSavers : save_model_rename_backup(p)
    \/ \E p \in SeqSavers : save_model_rename_final(p)
    \/ \E p \in SeqSavers : save_model_check_backup(p)
    \/ \E p \in SeqSavers : save_model_remove_backup(p)
    \/ \E p \in SeqSavers : save_model_crash(p)
    \/ load_model_begin
    \/ load_model_metadata
    \/ load_model_weights
    \/ load_model_model_preprocessor
    \/ load_model_model_state
    \/ load_model_preprocessor


\* A save_model call of process p returns (True or False) in this step.
SaveReturns(p) == sv[p].pc # "idle" /\ sv'[p].pc = "idle" /\ sv'[p].result # "crashed"

\* C1: a save_model call in which a write step failed (model part, preprocessor part
\* or metadata) returns with the final version path exactly as it was when the call
\* began: absent if it was absent, the old bundle unchanged if it existed.
C1_FailedSaveLeavesFinalUntouched ==
    [][\A p \in Savers :
          (SaveReturns(p) /\ sv'[p].wfail) => fs'.final = sv[p].before]_vars

\* C2: in every reachable state of the store, every intermediate step of save_model
\* and every crash included, the final version path is absent or holds a complete
\* bundle (all parts present, all written by the same save_model call).
C2_FinalAbsentOrComplete == ~fs.final.exists \/ Complete(fs.final)

\* C3: a load_model that overlaps a save_model of the same version either returns
\* False or has loaded metadata, model and preprocessor of one and the same bundle.
C3_LoadReadsOneBundle ==
    (ld.pc = "idle" /\ ld.result = "true") =>
        (ld.md = ld.mem.w /\ ld.mem.pp = ld.mem.w)

\* C4: a save_model call whose write steps all succeed, for a version whose final path
\* already exists, returns True with its own bundle under the final path and no
\* backup directory left.
C4_OverwriteEndsCleanAndTrue ==
    [][\A p \in Savers :
          (SaveReturns(p) /\ ~sv'[p].wfail /\ sv[p].before.exists) =>
              /\ sv'[p].result = "true"
              /\ Complete(fs'.final) /\ fs'.final.w = sv[p].id
              /\ ~fs'.backup.exists]_vars

\* =============================================================== the models
\* Number of predictor weight sets that training may produce (each fit that touches
\* the weights yields a new weights id).
MaxTrain == 1

\* persona_model.py 331: the neutral confidence of the fallback, 0.5, in tenths.
Neutral == 5

\* persona_model.py 324: model_config['inference_settings']['confidence_threshold'],
\* a value of the configuration file, in tenths.
confidence_threshold == 7

\* An input array: its shape <<rows, cols>> and its values in row-major order.
Array(r, c, d) == [shape |-> <<r, c>>, data |-> d]

\* The inputs the calls are tried on: one row; the same values as a column; two rows.
Inputs == { Array(1, 3, <<1, 2, 3>>), Array(3, 1, <<1, 2, 3>>),
            Array(2, 3, <<1, 2, 3, 4, 5, 6>>) }

NRows(x) == x.shape[1]

\* ndarray.tobytes(): the values in row-major order; the shape is not part of it.
tobytes(x) == x.data

\* hash(bytes): a number that depends on the bytes alone.
RECURSIVE hash(_)
hash(b) == IF b = <<>> THEN 7
           ELSE (hash(SubSeq(b, 1, Len(b) - 1)) * 31 + b[Len(b)]) % 65536

\* persona_model.py 309.
cache_key(x) == hash(tobytes(x))

Row(x, i) == SubSeq(x.data, (i - 1) * x.shape[2] + 1, i * x.shape[2])

RECURSIVE SeqSum(_)
SeqSum(q) == IF q = <<>> THEN 0 ELSE q[1] + SeqSum(Tail(q))

\* What the preprocessor accepts: the feature columns it was built for, and at least
\* one row (the scaler rejects an array of 0 samples).
NFeatures == 3

ValidInput(x) == x.shape[2] = NFeatures /\ x.shape[1] >= 1

\* data_preprocessor.py 75-88: a new preprocessor; last_updated is None.
NewPreprocessor == [last_updated |-> FALSE, mean |-> 0]

\* The statistic the scaler learns from the data it is fitted on.
FittedMean(x) == SeqSum(x.data) \div Len(x.data)

\* fit_transform that keeps the parameters the preprocessor already holds.
fit_transform_no_refit(pre, x) ==
    IF ~ValidInput(x) THEN {[ok |-> FALSE, pre |-> pre]}
    ELSE {[ok |-> TRUE, pre |-> [pre EXCEPT !.last_updated = TRUE]]}

\* data_preprocessor.py 142-167, fit_transform: the outcomes [ok, pre].  Unusable
\* data raises before a transformer is touched.  Otherwise the scaler is fitted
\* (320) and either everything else succeeds and last_updated is set (160), or a
\* later step (the label encoders 323-326, the transform 329-337) raises with the
\* scaler already re-fitted.
fit_transform(pre, x) ==
    IF ~ValidInput(x) THEN {[ok |-> FALSE, pre |-> pre]}
    ELSE {[ok |-> TRUE, pre |-> [last_updated |-> TRUE, mean |-> FittedMean(x)]],
          [ok |-> FALSE, pre |-> [pre EXCEPT !.mean = FittedMean(x)]]}

\* data_preprocessor.py 182-205, transform: fails on a preprocessor never fitted (184)
\* and on data it cannot use; changes nothing.
transform_ok(pre, x) == pre.last_updated /\ ValidInput(x)

\* data_preprocessor.py 329: the scaler centres every value by the fitted mean.
transform(pre, x) == [i \in 1..NRows(x) |-> [j \in 1..x.shape[2] |-> Row(x, i)[j] - pre.mean]]

\* The predictor (tf.keras model.predict): one recommendation and one confidence in
\* [0, 1] (tenths) per row, a function of the weights and of the processed row.
predictor(w, rows) ==
    [recs |-> [i \in 1..Len(rows) |-> (w + SeqSum(rows[i])) % 3],
     conf |-> [i \in 1..Len(rows) |-> (4 * w + SeqSum(rows[i])) % 11]]

\* persona_model.py 325: recommendations[confidence >= confidence_threshold].
RECURSIVE confident(_, _)
confident(recs, conf) ==
    IF recs = <<>> THEN <<>>
    ELSE (IF Head(conf) >= confidence_threshold THEN <<Head(recs)>> ELSE <<>>)
         \o confident(Tail(recs), Tail(conf))

\* The threshold without the fallback of lines 328-331.
apply_threshold_no_fallback(raw) ==
    [recs |-> confident(raw.recs, raw.conf), conf |-> raw.conf]

\* persona_model.py 323-331: the threshold, and the fallback when nothing passes it.
apply_threshold(raw) ==
    LET valid == confident(raw.recs, raw.conf) IN
    IF Len(valid) = 0
    THEN [recs |-> raw.recs, conf |-> [i \in 1..Len(raw.conf) |-> Neutral]]
    ELSE [recs |-> valid, conf |-> raw.conf]

NoPair == [recs |-> <<>>, conf |-> <<>>]

EmptyCache == [k \in {} |-> NoPair]

Put(c, k, v) == [j \in DOMAIN c \cup {k} |-> IF j = k THEN v ELSE c[j]]

NoRet == [set |-> FALSE, pair |-> NoPair]

\* What a call reports.  by: the weights that computed the returned prediction;
\* prior: what pm_ret held for the input when the call began; dropped: the number of
\* cache entries the call removed.
NoOut == [op |-> "none", ok |-> FALSE, x |-> Array(1, 3, <<1, 2, 3>>), use_cache |-> FALSE,
          hit |-> FALSE, ran_transform |-> FALSE, ran_predictor |-> FALSE,
          pair |-> NoPair, by |-> 0, prior |-> NoRet, dropped |-> 0,
          verify |-> FALSE, raised |-> FALSE]

\* persona_model.py 57-90: PersonaModel.__init__.
NewPersonaModel == [weights |-> 0, pre |-> NewPreprocessor, training_iterations |-> 0,
                    cache |-> EmptyCache]

\* recommendation_model.py 66-87: RecommendationModel.__init__.
NewRecommendationModel == [weights |-> 0, pre |-> NewPreprocessor, is_trained |-> FALSE,
                           training_iterations |-> 0, update_history |-> <<>>]

NoDisk == [has_w |-> FALSE, w |-> 0, has_pre |-> FALSE, pre |-> NewPreprocessor, has_state |-> FALSE,
           training_iterations |-> 0]

\* ======================================================== DataPreprocessor
\* Number of fit_transform calls that may be started; the call counter also serves
\* as the clock that datetime.utcnow() reads.
MaxFits == 2

\* data_preprocessor.py 33-35.  The numerical features are carried as one number per
\* row; category labels are small integers.
CATEGORICAL_FEATURES == <<"destination_type", "travel_style", "accommodation_type">>

SUPPORTED_MODEL_TYPES == {"recommendation", "nlp", "sentiment", "anomaly"}

Features == {CATEGORICAL_FEATURES[i] : i \in 1..Len(CATEGORICAL_FEATURES)}

\* A DataFrame: num is the numerical block (<<>> when the frame lacks the columns),
\* cat maps each categorical column the frame has to its values.
Frame(num, cat) == [kind |-> "frame", num |-> num, cat |-> cat, texts |-> <<>>]

\* An array or list of texts, each a sequence of words.
Texts(t) == [kind |-> "texts", num |-> <<>>, cat |-> <<>>, texts |-> t]

NoCat == [f \in {} |-> <<>>]

Dest(v) == [f \in {"destination_type"} |-> v]

DestStyle(v, w) ==
    [f \in {"destination_type", "travel_style"} |->
        IF f = "destination_type" THEN v ELSE w]

\* The data the calls are tried on.
Frames ==
    { Frame(<<1, 3>>, DestStyle(<<1, 2>>, <<1, 1>>)),
      Frame(<<4, 6>>, Dest(<<2, 3>>)),
      Frame(<<2>>, DestStyle(<<3>>, <<1>>)),
      Frame(<<5>>, NoCat),
      Frame(<<>>, Dest(<<1>>)) }

TextSets ==
    { Texts(<< <<"x", "x", "y">> >>),
      Texts(<< <<"y", "z">>, <<"z">> >>),
      Texts(<< <<"x", "z">> >>) }

\* What a caller hands to a preprocessor of the model type.
DataFor(t) ==
    CASE t = "nlp" -> TextSets
      [] t = "sentiment" -> Frames \cup {Texts(<< <<"x", "z">> >>)}
      [] OTHER -> Frames

\* ---- the transformers
\* sklearn scalers: fit replaces the learned statistic (the mean for StandardScaler,
\* the minimum for MinMaxScaler); transform shifts by it.
RECURSIVE SeqMin(_)
SeqMin(q) == IF Len(q) = 1 THEN q[1]
             ELSE IF q[1] <= SeqMin(Tail(q)) THEN q[1] ELSE SeqMin(Tail(q))

NewScaler(kind) == [kind |-> kind, fitted |-> FALSE, loc |-> 0]

scaler_fit(sc, num) ==
    [sc EXCEPT !.fitted = TRUE,
               !.loc = IF sc.kind = "MinMaxScaler" THEN SeqMin(num)
                       ELSE SeqSum(num) \div Len(num)]

scaler_transform(sc, num) == [i \in 1..Len(num) |-> num[i] - sc.loc]

\* sklearn LabelEncoder: classes_ is the sorted sequence of the distinct labels seen by
\* fit; transform gives a label's position in it and raises on any other label.
RECURSIVE SortedSeq(_)
SortedSeq(S) ==
    IF S = {} THEN <<>>
    ELSE LET lo == CHOOSE v \in S : \A u \in S : v <= u
         IN <<lo>> \o SortedSeq(S \ {lo})

Range(q) == {q[i] : i \in 1..Len(q)}

NewLabelEncoder == [fitted |-> FALSE, classes |-> <<>>]

encoder_fit(labels) == [fitted |-> TRUE, classes |-> SortedSeq(Range(labels))]

encoder_ok(enc, labels) == enc.fitted /\ Range(labels) \subseteq Range(enc.classes)

encoder_transform(enc, labels) ==
    [i \in 1..Len(labels) |-> CHOOSE k \in 1..Len(enc.classes) : enc.classes[k] = labels[i]]

\* keras Tokenizer: counts holds <<word, number of occurrences>> in the order the
\* words were first seen; fit_on_texts adds to the counts it already has.
NewTokenizer == [present |-> TRUE, counts |-> <<>>]

NoTokenizer == [present |-> FALSE, counts |-> <<>>]

Position(counts, w) ==
    IF \E k \in 1..Len(counts) : counts[k][1] = w
    THEN CHOOSE k \in 1..Len(counts) : counts[k][1] = w
    ELSE 0

CountWord(counts, w) ==
    IF Position(counts, w) = 0 THEN Append(counts, <<w, 1>>)
    ELSE [counts EXCEPT ![Position(counts, w)] = <<w, counts[Position(counts, w)][2] + 1>>]

RECURSIVE CountWords(_, _)
CountWords(counts, words) ==
    IF words = <<>> THEN counts
    ELSE CountWords(CountWord(counts, Head(words)), Tail(words))

RECURSIVE fit_on_texts(_, _)
fit_on_texts(counts, texts) ==
    IF texts = <<>> THEN counts
    ELSE fit_on_texts(CountWords(counts, Head(texts)), Tail(texts))

\* word_index: rank by count, descending, ties in first-seen order; 0 for a word the
\* tokenizer has not seen.
word_index(counts, w) ==
    LET p == Position(counts, w) IN
    IF p = 0 THEN 0
    ELSE 1 + Cardinality({k \in 1..Len(counts) :
                             \/ counts[k][2] > counts[p][2]
                             \/ counts[k][2] = counts[p][2] /\ k < p})

\* texts_to_sequences drops the words without an index.
RECURSIVE text_to_sequence(_, _)
text_to_sequence(counts, words) ==
    IF words = <<>> THEN <<>>
    ELSE (IF word_index(counts, Head(words)) = 0 THEN <<>>
          ELSE <<word_index(counts, Head(words))>>)
         \o text_to_sequence(counts, Tail(words))

\* data_preprocessor.py 32 and 345-350: pad_sequences(maxlen, padding='post',
\* truncating='post').
MAX_SEQUENCE_LENGTH == 512

\* The padded row is kept as its length and its leading indexes; zeros follow.
pad_sequence(q) ==
    [maxlen |-> MAX_SEQUENCE_LENGTH,
     head |-> IF Len(q) <= MAX_SEQUENCE_LENGTH THEN q ELSE SubSeq(q, 1, MAX_SEQUENCE_LENGTH)]

\* data_preprocessor.py 85-89 and 104-124: the transformers of a new preprocessor.
NewTransformers(t) ==
    [numerical |-> NewScaler(IF t = "anomaly" THEN "MinMaxScaler" ELSE "StandardScaler"),
     categorical |-> [f \in (IF t = "sentiment" THEN Features ELSE {}) |-> NewLabelEncoder],
     text |-> IF t \in {"recommendation", "nlp"} THEN NewTokenizer ELSE NoTokenizer]

\* ---- the pipelines: each gives [ok, tr, rows], tr being the transformers the call
\* leaves behind (also when it raises) and rows what it returns.
Raised(tr) == [ok |-> FALSE, tr |-> tr, rows |-> <<>>]

Returned(tr, rows) == [ok |-> TRUE, tr |-> tr, rows |-> rows]

\* data_preprocessor.py 318-326, the fit=True branch of _process_recommendation_data:
\* the scaler is fitted, then one new LabelEncoder per categorical column of the
\* data; the encoders of other columns stay.
recommendation_fit(tr, d) ==
    [tr EXCEPT !.numerical = scaler_fit(tr.numerical, d.num),
               !.categorical =
                   [f \in DOMAIN tr.categorical \cup DOMAIN d.cat |->
                       IF f \in DOMAIN d.cat THEN encoder_fit(d.cat[f])
                       ELSE tr.categorical[f]]]

\* The row of features i: the scaled numerical block, then one index per
\* categorical column in the order of CATEGORICAL_FEATURES.
RECURSIVE CatIndexes(_, _, _, _)
CatIndexes(tr, d, i, k) ==
    IF k > Len(CATEGORICAL_FEATURES) THEN <<>>
    ELSE (IF CATEGORICAL_FEATURES[k] \in DOMAIN d.cat
          THEN <<encoder_transform(tr.categorical[CATEGORICAL_FEATURES[k]],
                                   d.cat[CATEGORICAL_FEATURES[k]])[i]>>
          ELSE <<>>)
         \o CatIndexes(tr, d, i, k + 1)

\* data_preprocessor.py 328-337, the transform part of _process_recommendation_data:
\*   329  the scaler must be fitted;
\*   332-335  every categorical column needs a fitted encoder that knows its labels;
\*   337  hstack raises when there is no categorical column (a 1-d empty array).
recommendation_transform(tr1, d) ==
    IF /\ tr1.numerical.fitted
       /\ \A f \in DOMAIN d.cat :
             f \in DOMAIN tr1.categorical /\ encoder_ok(tr1.categorical[f], d.cat[f])
       /\ DOMAIN d.cat # {}
    THEN Returned(tr1, [i \in 1..Len(d.num) |->
                           <<scaler_transform(tr1.numerical, d.num)[i]>>
                           \o CatIndexes(tr1, d, i, 1)])
    ELSE Raised(tr1)

\* A pipeline that learns the labels it meets, whatever fit says.
process_recommendation_data_learns(tr, d, fit) ==
    IF d.kind # "frame" \/ d.num = <<>> THEN Raised(tr)
    ELSE recommendation_transform(recommendation_fit(tr, d), d)

\* data_preprocessor.py 316-337, _process_recommendation_data(data, fit);
\* data[NUMERICAL_FEATURES] raises KeyError on a frame without the columns.
process_recommendation_data(tr, d, fit) ==
    IF d.kind # "frame" \/ d.num = <<>> THEN Raised(tr)
    ELSE recommendation_transform(IF fit THEN recommendation_fit(tr, d) ELSE tr, d)

\* data_preprocessor.py 339-350, _process_nlp_data(data, fit).
process_nlp_data(tr, d, fit) ==
    IF d.kind # "texts" \/ ~tr.text.present THEN Raised(tr)
    ELSE LET tr1 == IF fit
                    THEN [tr EXCEPT !.text.counts = fit_on_texts(tr.text.counts, d.texts)]
                    ELSE tr
         IN Returned(tr1, [i \in 1..Len(d.texts) |->
                              pad_sequence(text_to_sequence(tr1.text.counts, d.texts[i]))])

\* data_preprocessor.py 352-357, _process_sentiment_data(data, fit).
process_sentiment_data(tr, d, fit) ==
    IF d.kind = "texts" THEN process_nlp_data(tr, d, fit)
    ELSE process_recommendation_data(tr, d, fit)

\* data_preprocessor.py 359-364, _process_anomaly_data(data, fit).
process_anomaly_data(tr, d, fit) ==
    IF d.kind # "frame" \/ d.num = <<>> THEN Raised(tr)
    ELSE LET tr1 == IF fit
                    THEN [tr EXCEPT !.numerical = scaler_fit(tr.numerical, d.num)]
                    ELSE tr
         IN IF tr1.numerical.fitted
            THEN Returned(tr1, [i \in 1..Len(d.num) |->
                                   <<scaler_transform(tr1.numerical, d.num)[i]>>])
            ELSE Raised(tr1)

\* data_preprocessor.py 150-157 and 190-197: the pipeline of the model type.
process(t, tr, d, fit) ==
    CASE t = "recommendation" -> process_recommendation_data(tr, d, fit)
      [] t = "nlp" -> process_nlp_data(tr, d, fit)
      [] t = "sentiment" -> process_sentiment_data(tr, d, fit)
      [] OTHER -> process_anomaly_data(tr, d, fit)

\* ---- the preprocessor object
Objects == {"P", "Q"}

\* The object that is fitted and saved; the other one loads what it saved.
Fitted == {"P"}

\* preprocessor_state['statistics'] is {} until _update_statistics fills it.
NoStatistics == [set |-> FALSE, sample_count |-> 0, timestamp |-> 0,
                 has_mean |-> FALSE, mean |-> 0]

\* data_preprocessor.py 91-96: the cache, which no method changes.
NewCache == [frequent_values |-> {}, statistics |-> {}, last_updated |-> 0]

\* data_preprocessor.py 52-102, DataPreprocessor.__init__(model_type, env); o stands
\* for the creation time.  last_updated 0 is None.
DataPreprocessor_init(t, o) ==
    [state |-> [model_type |-> t, created_at |-> o, version |-> "1.0.0",
                last_updated |-> 0, statistics |-> NoStatistics],
     transformers |-> NewTransformers(t),
     cache |-> NewCache]

NSamples(d) ==
    IF d.kind = "texts" THEN Len(d.texts)
    ELSE IF d.num # <<>> THEN Len(d.num)
    ELSE Len(d.cat[CHOOSE f \in DOMAIN d.cat : TRUE])

\* data_preprocessor.py 293-314, _update_statistics(data).
update_statistics(d, now) ==
    [set |-> TRUE, sample_count |-> NSamples(d), timestamp |-> now,
     has_mean |-> d.kind = "frame" /\ d.num # <<>>,
     mean |-> IF d.kind = "frame" /\ d.num # <<>> THEN SeqSum(d.num) \div Len(d.num)
              ELSE 0]

\* data_preprocessor.py 142-167, fit_transform(data) at time now: statistics (146),
\* the pipeline with fit=True (149-157), last_updated (160).  An exception of the
\* pipeline leaves what was assigned before it.
fit_transform_outcome(pp, d, now) ==
    LET r == process(pp.state.model_type, pp.transformers, d, TRUE) IN
    [ok |-> r.ok, rows |-> r.rows,
     pp |-> [pp EXCEPT !.state.statistics = update_statistics(d, now),
                       !.transformers = r.tr,
                       !.state.last_updated = IF r.ok THEN now ELSE @]]

\* transform that fits a preprocessor that was never fitted.
transform_outcome_fits(pp, d) ==
    LET r == process(pp.state.model_type, pp.transformers, d, pp.state.last_updated = 0)
    IN [ok |-> r.ok, rows |-> r.rows, pp |-> [pp EXCEPT !.transformers = r.tr]]

\* transform that counts the samples it has seen.
transform_outcome_counts(pp, d) ==
    LET r == process(pp.state.model_type, pp.transformers, d, FALSE) IN
    IF pp.state.last_updated = 0 THEN [ok |-> FALSE, rows |-> <<>>, pp |-> pp]
    ELSE [ok |-> r.ok, rows |-> r.rows,
          pp |-> [pp EXCEPT !.state.statistics.sample_count = @ + NSamples(d)]]

\* data_preprocessor.py 182-205, transform(data): refused while last_updated is
\* unset (184-185), else the pipeline with fit=False.
transform_outcome(pp, d) ==
    LET r == process(pp.state.model_type, pp.transformers, d, FALSE) IN
    IF pp.state.last_updated = 0 THEN [ok |-> FALSE, rows |-> <<>>, pp |-> pp]
    ELSE [ok |-> r.ok, rows |-> r.rows, pp |-> [pp EXCEPT !.transformers = r.tr]]

\* ---- the files of save_state
\* json.dump / json.load of preprocessor_state: None is null, strings and numbers
\* keep their type, the statistics dict keeps its keys.
JNull == [t |-> "null", v |-> 0]

JString(x) == [t |-> "string", v |-> x]

JNumber(n) == [t |-> "number", v |-> n]

json_dump(st) ==
    [model_type |-> JString(st.model_type),
     created_at |-> JString(st.created_at),
     version |-> JString(st.version),
     last_updated |-> IF st.last_updated = 0 THEN JNull ELSE JString(st.last_updated),
     statistics |->
        [keys |-> IF ~st.statistics.set THEN {}
                  ELSE {"sample_count", "timestamp"}
                       \cup (IF st.statistics.has_mean THEN {"numerical_features"} ELSE {}),
         sample_count |-> JNumber(st.statistics.sample_count),
         timestamp |-> JString(st.statistics.timestamp),
         mean |-> JNumber(st.statistics.mean)]]

\* json.load that keeps the identity fields only.
json_load_lossy(j) ==
    [model_type |-> j.model_type.v,
     created_at |-> j.created_at.v,
     version |-> j.version.v,
     last_updated |-> 0,
     statistics |-> NoStatistics]

json_load(j) ==
    [model_type |-> j.model_type.v,
     created_at |-> j.created_at.v,
     version |-> j.version.v,
     last_updated |-> IF j.last_updated.t = "null" THEN 0 ELSE j.last_updated.v,
     statistics |->
        [set |-> j.statistics.keys # {},
         sample_count |-> j.statistics.sample_count.v,
         timestamp |-> j.statistics.timestamp.v,
         has_mean |-> "numerical_features" \in j.statistics.keys,
         mean |-> j.statistics.mean.v]]

\* pickle.dump / pickle.load of the transformers: the object graph as it is.
pickle_dump(tr) == [pickled |-> tr]

pickle_load(b) == b.pickled

\* A file is absent or whole.
NoFiles(t) ==
    [state |-> [status |-> "absent", content |-> json_dump(DataPreprocessor_init(t, "P").state)],
     transformers |-> [status |-> "absent", content |-> pickle_dump(NewTransformers(t))],
     cache |-> [status |-> "absent"],
     saved |-> FALSE,
     src |-> DataPreprocessor_init(t, "P")]

Whole(c) == [status |-> "whole", content |-> c]

\* No DataPreprocessor object of its own, no directory of save_state.
NoObjects == [o \in {} |-> DataPreprocessor_init("nlp", o)]

NoDirectory == [saved |-> FALSE]

\* What the last call was.
NoCall == [op |-> "none", who |-> "P", ok |-> FALSE, data |-> Frame(<<>>, NoCat)]
\* ============================================================ ModelTrainer
\* Number of train_model calls that reach model.train.
MaxCalls == 2

\* A missing value (NaN, None) of a column; the other values are naturals.
Missing == -1

\* A DataFrame is a sequence of columns of one length; a column has a dtype and values.
Column(dtype, values) == [dtype |-> dtype, values |-> values]

Dtypes == {"float64", "int64", "float32", "object"}

\* Ten rows of which one is missing: a missing ratio of exactly 0.1.
TenRows(a, b) == <<a, b, a, b, a, b, a, b, a, Missing>>

ColumnValues ==
    { <<>>, <<3>>, <<3, 3>>, <<3, 4>>, <<3, Missing>>, TenRows(1, 2), TenRows(2, 2) }

IsNull(values) == {i \in 1..Len(values) : values[i] = Missing}

\* An int64 column holds no missing value (pandas stores such a column as float64).
Columns ==
    { c \in {Column(t, v) : t \in Dtypes, v \in ColumnValues} :
         c.dtype = "int64" => IsNull(c.values) = {} }

TrainingFrames ==
    {<<>>} \cup {<<c>> : c \in Columns}
           \cup {df \in {<<c1, c2>> : c1 \in Columns, c2 \in Columns} :
                    Len(df[1].values) = Len(df[2].values)}

\* len(data), and DataFrame.empty: no column or no row.
FrameLen(df) == IF df = <<>> THEN 0 ELSE Len(df[1].values)

empty(df) == df = <<>> \/ FrameLen(df) = 0

\* model_trainer.py 293-294: data.isnull().sum() / len(data) > 0.1 for the column.
missing_ratio_exceeds(col) == 10 * Cardinality(IsNull(col.values)) > Len(col.values)

\* Series.std(): the sample standard deviation (ddof=1) of the values that are not
\* missing, NaN when fewer than two remain; NaN == 0 is False.
NotNull(values) == SelectSeq(values, LAMBDA v : v # Missing)

std_is_zero(col) ==
    /\ Len(NotNull(col.values)) >= 2
    /\ \A i \in 1..Len(NotNull(col.values)) : NotNull(col.values)[i] = NotNull(col.values)[1]

\* model_trainer.py 298: select_dtypes(include=['float64', 'int64']).
select_dtypes(df) == {i \in 1..Len(df) : df[i].dtype \in {"float64", "int64"}}

NoError == "none"

\* model_trainer.py 290-301, _validate_data_quality(data): the message of the
\* ValueError it raises, or NoError.
validate_data_quality(df) ==
    IF \E i \in 1..Len(df) : missing_ratio_exceeds(df[i])
    THEN "Data contains too many missing values"
    ELSE IF \E i \in select_dtypes(df) : std_is_zero(df[i])
         THEN "Zero variance in column"
         ELSE NoError

\* model_trainer.py 108-112: the two checks before anything else is done.
gate(df) ==
    IF empty(df) THEN "Training data cannot be empty" ELSE validate_data_quality(df)

NoTrainCall == [op |-> "none", data |-> <<>>, invoked |-> FALSE, error |-> NoError]

\* No call of _enhance_diversity or _calculate_confidence, no ModelConfig.
NoSelection == [pc |-> "none"]

NoConfidence == [pc |-> "none"]

NoConfig == [loaded |-> FALSE]

NoConfigCall == [op |-> "none"]

\* The store with a trainer of a PersonaModel; the model objects are not called.
InitStore ==
    /\ fs = [temp |-> Absent, final |-> Absent, backup |-> Absent]
    /\ sv = [p \in Savers |-> SvIdle]
    /\ ld = LdIdle
    /\ nextId = 1
    /\ model = "PersonaModel"
    /\ pm = NewPersonaModel
    /\ pm_src = EmptyCache
    /\ pm_ret = [x \in Inputs |-> NoRet]
    /\ pm_disk = NoDisk
    /\ rm = NewRecommendationModel
    /\ out = NoOut
    /\ nextW = 1
    /\ dp = NoObjects
    /\ dp_disk = NoDirectory
    /\ dp_out = NoCall
    /\ nfits = 0
    /\ tm_out = NoTrainCall
    /\ tm_calls = 0
    /\ mmr = NoSelection
    /\ cc = NoConfidence
    /\ cfg = NoConfig
    /\ cfg_out = NoConfigCall

SpecStore == InitStore /\ [][NextStore]_vars

\* ------------------------------------------------------------ PersonaModel
Call(op, x, uc) == [NoOut EXCEPT !.op = op, !.x = x, !.use_cache = uc]

Forget == [x \in Inputs |-> NoRet]

\* The provenance of the entries a cache holds.
Track(src, cache) == [k \in DOMAIN cache |-> src[k]]

\* train that forgets line 272, self._prediction_cache.clear().
train_success_keeps_cache(m, pre, w) ==
    [m EXCEPT !.weights = w, !.pre = pre,
              !.training_iterations = m.training_iterations + 1]

\* persona_model.py 266-272: what a successful train does to the model.
train_success(m, pre, w) ==
    [m EXCEPT !.weights = w, !.pre = pre,
              !.training_iterations = m.training_iterations + 1,
              !.cache = EmptyCache]

\* persona_model.py 231-286, PersonaModel.train(X, y, incremental).
\*   233-234  fit_transform(X) when not incremental, else transform(X);
\*   256-264  model.fit, which may raise before or after it changed the weights;
\*   266-272  iterations + 1, cache cleared;   284-286  any exception is re-raised.
train(x, incremental) ==
    /\ model = "PersonaModel"
    /\ nextW <= MaxTrain
    /\ \E pr \in (IF incremental
                  THEN {[ok |-> transform_ok(pm.pre, x), pre |-> pm.pre]}
                  ELSE fit_transform(pm.pre, x)) :
         \/ /\ ~pr.ok
            /\ pm' = [pm EXCEPT !.pre = pr.pre]
            /\ out' = Call("train", x, incremental)
            /\ UNCHANGED <<pm_src, nextW>>
         \/ /\ pr.ok
            /\ \E touched \in BOOLEAN :
                 /\ pm' = [pm EXCEPT !.pre = pr.pre,
                                     !.weights = IF touched THEN nextW ELSE pm.weights]
                 /\ nextW' = IF touched THEN nextW + 1 ELSE nextW
            /\ out' = Call("train", x, incremental)
            /\ UNCHANGED pm_src
         \/ /\ pr.ok
            /\ pm' = train_success(pm, pr.pre, nextW)
            /\ pm_src' = Track(pm_src, pm'.cache)
            /\ nextW' = nextW + 1
            /\ out' = [Call("train", x, incremental) EXCEPT
                          !.ok = TRUE, !.dropped = Cardinality(DOMAIN pm.cache)]
    /\ pm_ret' = Forget
    /\ UNCHANGED <<model, pm_disk, rm, storeVars, dataVars, trainerVars, rankVars, configVars>>

\* predict that never finds its cache entry.
cache_hit_never(x, use_cache) == FALSE

\* persona_model.py 308-312: the cache is consulted under the key of the input.
cache_hit(x, use_cache) == use_cache /\ cache_key(x) \in DOMAIN pm.cache

\* persona_model.py 307-341, PersonaModel.predict(user_preferences, use_cache).
\*   309-312  a cached pair is returned before anything else is done;
\*   315      transform, which raises on an unfitted preprocessor or unusable data;
\*   318-325  the inference and the mask, either of which may raise (the framework,
\*            or a mask whose shape does not fit the recommendations);
\*   328-337  fallback, cache write when use_cache, return;  339-341  re-raise.
predict(x, use_cache) ==
    /\ model = "PersonaModel"
    /\ LET key == cache_key(x)
           call == [Call("predict", x, use_cache) EXCEPT
                       !.prior = IF use_cache THEN pm_ret[x] ELSE NoRet]
       IN
       IF cache_hit(x, use_cache)
       THEN /\ out' = [call EXCEPT !.ok = TRUE, !.hit = TRUE, !.pair = pm.cache[key],
                                   !.by = pm_src[key].w]
            /\ pm_ret' = [pm_ret EXCEPT ![x] = [set |-> TRUE, pair |-> pm.cache[key]]]
            /\ UNCHANGED <<pm, pm_src>>
       ELSE IF ~transform_ok(pm.pre, x)
       THEN /\ out' = [call EXCEPT !.ran_transform = TRUE]
            /\ UNCHANGED <<pm, pm_src, pm_ret>>
       ELSE LET res == apply_threshold(predictor(pm.weights, transform(pm.pre, x))) IN
            \/ /\ out' = [call EXCEPT !.ran_transform = TRUE, !.ran_predictor = TRUE]
               /\ UNCHANGED <<pm, pm_src, pm_ret>>
            \/ /\ out' = [call EXCEPT !.ok = TRUE, !.ran_transform = TRUE,
                                      !.ran_predictor = TRUE, !.pair = res,
                                      !.by = pm.weights]
               /\ IF use_cache
                  THEN /\ pm' = [pm EXCEPT !.cache = Put(pm.cache, key, res)]
                       /\ pm_src' = Put(pm_src, key,
                                        [w |-> pm.weights, pre |-> pm.pre, x |-> x])
                       /\ pm_ret' = [pm_ret EXCEPT ![x] = [set |-> TRUE, pair |-> res]]
                  ELSE UNCHANGED <<pm, pm_src, pm_ret>>
    /\ UNCHANGED <<model, pm_disk, rm, nextW, storeVars, dataVars, trainerVars, rankVars, configVars>>

\* persona_model.py 354-369, PersonaModel.save(path), as the directory it leaves:
\*   356  the keras model; an exception here ends the call with nothing written;
\*   359  the preprocessor state; save_state reports failure by its result, which
\*        is dropped, so the old file (if any) stays and the call goes on;
\*   362  model_state.npy; an exception here ends the call after the other writes.
\* The outcomes are [ok, disk].
save_outcomes(m, d) ==
    LET d1 == [d EXCEPT !.has_w = TRUE, !.w = m.weights]
        d2 == [d1 EXCEPT !.has_pre = TRUE, !.pre = m.pre]
        d3(dd) == [dd EXCEPT !.has_state = TRUE, !.training_iterations = m.training_iterations]
    IN { [ok |-> FALSE, disk |-> d],
         [ok |-> FALSE, disk |-> d1], [ok |-> FALSE, disk |-> d2],
         [ok |-> TRUE, disk |-> d3(d1)], [ok |-> TRUE, disk |-> d3(d2)] }

save ==
    /\ model = "PersonaModel"
    /\ \E r \in save_outcomes(pm, pm_disk) :
         /\ pm_disk' = r.disk
         /\ out' = [Call("save", NoOut.x, FALSE) EXCEPT !.ok = r.ok]
    /\ UNCHANGED <<model, pm, pm_src, pm_ret, rm, nextW, storeVars, dataVars, trainerVars, rankVars, configVars>>

\* A load that reports success whatever the smoke test did.
load_returns_unverified(raised) == TRUE

\* persona_model.py 397-402: load returns True unless an exception reached the
\* except clause.
load_returns(raised) == ~raised

\* persona_model.py 384-390: what load assigns to model m from directory d before
\* it returns or raises: the keras model (384; nothing more if it cannot be read),
\* the preprocessor state if its files can be read (387), model_state (390).
loaded(m, d) ==
    IF ~d.has_w THEN m
    ELSE LET m1 == [m EXCEPT !.weights = d.w,
                             !.pre = IF d.has_pre THEN d.pre ELSE m.pre]
         IN IF ~d.has_state THEN m1
            ELSE [m1 EXCEPT !.training_iterations = d.training_iterations]

\* persona_model.py 382-402, PersonaModel.load(path, verify_integrity): the model
\* (384), the preprocessor state (387, result dropped), model_state (390), then, if
\* verify_integrity, one smoke-test inference on a random input (393-395), which
\* may raise.  The prediction cache is not touched.
load(verify_integrity) ==
    /\ model = "PersonaModel"
    /\ pm' = loaded(pm, pm_disk)
    /\ IF ~(pm_disk.has_w /\ pm_disk.has_state)
       THEN out' = [Call("load", NoOut.x, FALSE) EXCEPT !.verify = verify_integrity]
       ELSE \E raised \in (IF verify_integrity THEN BOOLEAN ELSE {FALSE}) :
               out' = [Call("load", NoOut.x, FALSE) EXCEPT
                          !.verify = verify_integrity,
                          !.ran_predictor = verify_integrity,
                          !.raised = raised,
                          !.ok = load_returns(raised)]
    /\ pm_ret' = Forget
    /\ UNCHANGED <<model, pm_src, pm_disk, rm, nextW, storeVars, dataVars, trainerVars, rankVars, configVars>>

\* ----------------------------------------------------- RecommendationModel
\* recommendation_model.py 202-261, RecommendationModel.train(interaction_data).
rec_train(x) ==
    /\ model = "RecommendationModel"
    /\ nextW <= MaxTrain
    /\ \E pr \in fit_transform(rm.pre, x) :
         \/ /\ ~pr.ok
            /\ rm' = [rm EXCEPT !.pre = pr.pre]
            /\ out' = Call("train", x, FALSE)
            /\ UNCHANGED nextW
         \/ /\ pr.ok
            /\ \E touched \in BOOLEAN :
                 /\ rm' = [rm EXCEPT !.pre = pr.pre,
                                     !.weights = IF touched THEN nextW ELSE rm.weights]
                 /\ nextW' = IF touched THEN nextW + 1 ELSE nextW
            /\ out' = Call("train", x, FALSE)
         \/ /\ pr.ok
            /\ rm' = [rm EXCEPT !.pre = pr.pre, !.weights = nextW, !.is_trained = TRUE,
                                !.training_iterations = rm.training_iterations + 1]
            /\ nextW' = nextW + 1
            /\ out' = [Call("train", x, FALSE) EXCEPT !.ok = TRUE]
    /\ UNCHANGED <<model, pm, pm_src, pm_ret, pm_disk, storeVars, dataVars, trainerVars, rankVars, configVars>>

\* recommendation_model.py 345-349: the metrics of one update; the values stand for
\* those measured on the fit that gave the weights w.
update_metrics(w) == [loss_delta |-> w, auc_delta |-> w, timestamp |-> w]

\* An update that leaves its record in the history twice.
record_update_twice(update_history, metrics) ==
    Append(Append(update_history, metrics), metrics)

\* recommendation_model.py 352: self.model_state['update_history'].append(update_metrics).
record_update(update_history, metrics) == Append(update_history, metrics)

\* recommendation_model.py 331-362, RecommendationModel.update(new_interactions):
\* transform (333), model.fit on the current weights (336-342), one metrics record
\* appended to update_history (345-352); the drift test that follows (355-356)
\* compares a float and cannot raise.  A transform that raises ends the call before
\* any fit.
update(x) ==
    /\ model = "RecommendationModel"
    /\ IF ~transform_ok(rm.pre, x)
       THEN /\ out' = Call("update", x, FALSE)
            /\ UNCHANGED <<rm, nextW>>
       ELSE /\ nextW <= MaxTrain
            /\ \/ \E touched \in BOOLEAN :
                    /\ rm' = [rm EXCEPT !.weights = IF touched THEN nextW ELSE rm.weights]
                    /\ nextW' = IF touched THEN nextW + 1 ELSE nextW
                    /\ out' = Call("update", x, FALSE)
               \/ /\ rm' = [rm EXCEPT !.weights = nextW,
                                      !.update_history =
                                          record_update(rm.update_history,
                                                        update_metrics(nextW))]
                  /\ nextW' = nextW + 1
                  /\ out' = [Call("update", x, FALSE) EXCEPT !.ok = TRUE]
    /\ UNCHANGED <<model, pm, pm_src, pm_ret, pm_disk, storeVars, dataVars, trainerVars, rankVars, configVars>>

\* recommendation_model.py 278-315, RecommendationModel.predict(user_data): refused
\* on an untrained model (279-280), else transform (283) and model.predict (286) on
\* every call; the model keeps no prediction cache.  The ranking of lines 289-311
\* then returns, raises or does not end (SpecRecommend has its steps); none of
\* these changes the model.
rec_predict(x) ==
    /\ model = "RecommendationModel"
    /\ IF rm.is_trained /\ transform_ok(rm.pre, x)
       THEN \E returns \in BOOLEAN :
               out' = [Call("predict", x, FALSE) EXCEPT
                          !.ok = returns, !.ran_transform = TRUE, !.ran_predictor = TRUE,
                          !.pair = IF returns
                                   THEN predictor(rm.weights, transform(rm.pre, x))
                                   ELSE NoPair,
                          !.by = rm.weights]
       ELSE out' = [Call("predict", x, FALSE) EXCEPT !.ran_transform = rm.is_trained]
    /\ UNCHANGED <<model, pm, pm_src, pm_ret, pm_disk, rm, nextW, storeVars, dataVars, trainerVars, rankVars, configVars>>

NextModel ==
    \/ \E x \in Inputs, incremental \in BOOLEAN : train(x, incremental)
    \/ \E x \in Inputs, use_cache \in BOOLEAN : predict(x, use_cache)
    \/ save
    \/ \E verify_integrity \in BOOLEAN : load(verify_integrity)
    \/ \E x \in Inputs : rec_train(x)
    \/ \E x \in Inputs : update(x)
    \/ \E x \in Inputs : rec_predict(x)

InitModel ==
    /\ fs = [temp |-> Absent, final |-> Absent, backup |-> Absent]
    /\ sv = [p \in Savers |-> SvIdle]
    /\ ld = LdIdle
    /\ nextId = 1
    /\ model \in {"PersonaModel", "RecommendationModel"}
    /\ pm = NewPersonaModel
    /\ pm_src = EmptyCache
    /\ pm_ret = [x \in Inputs |-> NoRet]
    /\ pm_disk = NoDisk
    /\ rm = NewRecommendationModel
    /\ out = NoOut
    /\ nextW = 1
    /\ dp = NoObjects
    /\ dp_disk = NoDirectory
    /\ dp_out = NoCall
    /\ nfits = 0
    /\ tm_out = NoTrainCall
    /\ tm_calls = 0
    /\ mmr = NoSelection
    /\ cc = NoConfidence
    /\ cfg = NoConfig
    /\ cfg_out = NoConfigCall

SpecModel == InitModel /\ [][NextModel]_vars

\* ------------------------------------------------------------------ claims
PersonaCall(op) == model = "PersonaModel" /\ out.op = op

\* What the predictor gives for the input of the last call, before the threshold.
RawOfLast == predictor(pm.weights, transform(pm.pre, out.x))

AllBelow(raw) == \A i \in 1..Len(raw.conf) : raw.conf[i] < confidence_threshold

\* C5: after a successful PersonaModel.train (incremental or not) the prediction cache
\* is empty; RecommendationModel keeps no cache at all, so what its predict returns,
\* also after an update, is computed by the weights the model holds at that call.
C5_CacheEmptyAfterTraining ==
    /\ (PersonaCall("train") /\ out.ok) => DOMAIN pm.cache = {}
    /\ (model = "RecommendationModel" /\ out.op = "predict" /\ out.ok)
           => out.by = rm.weights

\* A successful train has just emptied a cache that held entries.
C5_Witness == PersonaCall("train") /\ out.ok /\ out.dropped > 0

\* C6: every entry of the prediction cache was computed by the weights and the
\* preprocessor state the model holds now (in particular after a load).
C6_CacheMatchesModel ==
    \A k \in DOMAIN pm.cache : pm_src[k].w = pm.weights /\ pm_src[k].pre = pm.pre

\* C7: a predict(use_cache=True) on an input for which an earlier predict(use_cache=True)
\* returned since the last train or load returns exactly that pair and invokes
\* neither the preprocessor's transform nor the predictor.
C7_SecondPredictServedFromCache ==
    (PersonaCall("predict") /\ out.use_cache /\ out.prior.set) =>
        /\ out.ok
        /\ out.pair = out.prior.pair
        /\ ~out.ran_transform /\ ~out.ran_predictor

\* The second of two such calls has returned, the first having computed its pair.
C7_Witness ==
    /\ PersonaCall("predict") /\ out.use_cache /\ out.prior.set /\ out.hit
    /\ ValidInput(out.x) /\ pm_src[cache_key(out.x)].x = out.x

\* C8: predict returns a cached pair only for an input equal, in shape and values, to
\* the input that produced the pair.
C8_CacheHitOnlyForEqualInput ==
    (PersonaCall("predict") /\ out.ok /\ out.hit) => pm_src[cache_key(out.x)].x = out.x

\* C9: predict never returns an empty result set; when the threshold removes every
\* output it returns all of them, every confidence being exactly 0.5.
C9_FallbackNeverEmpty ==
    (PersonaCall("predict") /\ out.ok) =>
        /\ Len(out.pair.recs) > 0
        /\ (~out.hit /\ AllBelow(RawOfLast)) =>
               /\ out.pair.recs = RawOfLast.recs
               /\ Len(out.pair.conf) = Len(RawOfLast.recs)
               /\ \A i \in 1..Len(out.pair.conf) : out.pair.conf[i] = Neutral

\* The fallback has just acted on a two-row input.
C9_Witness ==
    /\ PersonaCall("predict") /\ out.ok /\ ~out.hit
    /\ AllBelow(RawOfLast) /\ NRows(out.x) = 2

\* C10: predict on an input of k rows returns k prediction rows and k confidences,
\* each in [0, 1], whatever the threshold removes.
C10_OneRowPerInputRow ==
    (PersonaCall("predict") /\ out.ok) =>
        /\ Len(out.pair.recs) = NRows(out.x)
        /\ Len(out.pair.conf) = NRows(out.x)
        /\ \A i \in 1..Len(out.pair.conf) : out.pair.conf[i] \in 0..10

\* The preprocessor as a completed fit_transform on x leaves it.
FittedOn(x) == [last_updated |-> TRUE, mean |-> FittedMean(x)]

\* A step of PersonaModel.train: every call overwrites the report of the last one.
TrainStep == model = "PersonaModel" /\ out'.op = "train"

\* C16: PersonaModel.train with incremental=True never changes the preprocessor's
\* fitted parameters and fails on a preprocessor that was never fitted; a train with
\* incremental=False that succeeds has re-fitted the preprocessor on X.
C16_IncrementalKeepsPreprocessor ==
    [][TrainStep =>
          IF out'.use_cache
          THEN /\ pm'.pre = pm.pre
               /\ ~pm.pre.last_updated => ~out'.ok
          ELSE out'.ok => pm'.pre = FittedOn(out'.x)]_vars

\* An incremental train has succeeded on a preprocessor fitted on other data.
C16_Witness ==
    /\ PersonaCall("train") /\ out.use_cache /\ out.ok
    /\ pm.pre.last_updated /\ pm.pre # FittedOn(out.x)

\* C17: training_iterations never decreases over train, predict, update, save and
\* load calls; a successful train adds exactly 1 and a failed train leaves it as it is.
C17_IterationsNeverRolledBack ==
    [][/\ pm'.training_iterations >= pm.training_iterations
       /\ rm'.training_iterations >= rm.training_iterations
       /\ out'.op = "train" =>
              /\ pm'.training_iterations =
                     pm.training_iterations +
                         (IF model = "PersonaModel" /\ out'.ok THEN 1 ELSE 0)
              /\ rm'.training_iterations =
                     rm.training_iterations +
                         (IF model = "RecommendationModel" /\ out'.ok THEN 1 ELSE 0)]_vars

\* C19: a load_model call that finds no version directory, or reads metadata naming
\* another model type than the trainer's, runs no load step, returns False and leaves
\* what the trainer holds as it was when the call began.
C19_MissingOrMismatchLoadsNothing ==
    (ld.mt = "missing" \/ ld.mt \in ModelTypes \ {LoaderType}) =>
        /\ ld.pc = "idle" /\ ld.result = "false"
        /\ ld.mem = ld.before

\* A trainer that holds a loaded bundle has been refused a bundle of another type.
C19_Witness ==
    /\ ld.pc = "idle" /\ ld.mt \in ModelTypes \ {LoaderType}
    /\ ld.before.w > 0 /\ Complete(fs.final)

\* C20: a load_model call that returns False, whichever step failed, leaves the
\* trainer's model and preprocessor exactly as they were before the call.
C20_FailedLoadChangesNothing ==
    (ld.pc = "idle" /\ ld.result = "false") => ld.mem = ld.before

\* ------------------------------------------------------- DataPreprocessor calls
TypeOf(o) == dp[o].state.model_type

\* fit_transform(data) on object o.
DataPreprocessor_fit_transform(o, d) ==
    /\ nfits < MaxFits
    /\ LET r == fit_transform_outcome(dp[o], d, nfits + 1) IN
       /\ dp' = [dp EXCEPT ![o] = r.pp]
       /\ dp_out' = [op |-> "fit_transform", who |-> o, ok |-> r.ok, data |-> d]
    /\ nfits' = nfits + 1
    /\ UNCHANGED <<dp_disk, storeVars, modelVars, trainerVars, rankVars, configVars>>

\* transform(data) on object o.
DataPreprocessor_transform(o, d) ==
    /\ LET r == transform_outcome(dp[o], d) IN
       /\ dp' = [dp EXCEPT ![o] = r.pp]
       /\ dp_out' = [op |-> "transform", who |-> o, ok |-> r.ok, data |-> d]
    /\ UNCHANGED <<dp_disk, nfits, storeVars, modelVars, trainerVars, rankVars, configVars>>

\* data_preprocessor.py 217-241, save_state(path): the directory (218-219), then
\* preprocessor_state.json (222-224), transformers.pkl (227-229) and cache.json
\* (232-234), each opened for writing and written; any exception ends the call with
\* False and leaves the files written so far (the call fails before the first file,
\* between two files, or not at all).  The outcomes are [ok, disk]; saved
\* tells that the three files are those of one call that returned True, src is the
\* object that call saved.
save_state_outcomes(pp, disk) ==
    LET d1 == [disk EXCEPT !.state = Whole(json_dump(pp.state)), !.saved = FALSE,
                           !.src = NoFiles(pp.state.model_type).src]
        d2 == [d1 EXCEPT !.transformers = Whole(pickle_dump(pp.transformers))]
    IN { [ok |-> FALSE, disk |-> disk],
         [ok |-> FALSE, disk |-> d1],
         [ok |-> FALSE, disk |-> d2],
         [ok |-> TRUE, disk |-> [d2 EXCEPT !.cache.status = "whole", !.saved = TRUE,
                                           !.src = pp]] }

save_state(o) ==
    /\ \E r \in save_state_outcomes(dp[o], dp_disk) :
         /\ dp_disk' = r.disk
         /\ dp_out' = [op |-> "save_state", who |-> o, ok |-> r.ok, data |-> NoCall.data]
    /\ UNCHANGED <<dp, nfits, storeVars, modelVars, trainerVars, rankVars, configVars>>

\* data_preprocessor.py 253-276, load_state(path): preprocessor_state (257-259),
\* transformers (262-264) and cache (267-269) are read and assigned one after the
\* other; a file that cannot be read ends the call with False after the assignments
\* made so far.
load_state_outcome(pp, disk) ==
    IF disk.state.status # "whole" THEN [ok |-> FALSE, pp |-> pp]
    ELSE LET p1 == [pp EXCEPT !.state = json_load(disk.state.content)] IN
         IF disk.transformers.status # "whole" THEN [ok |-> FALSE, pp |-> p1]
         ELSE LET p2 == [p1 EXCEPT !.transformers = pickle_load(disk.transformers.content)]
              IN [ok |-> disk.cache.status = "whole", pp |-> p2]

load_state(o) ==
    /\ LET r == load_state_outcome(dp[o], dp_disk) IN
       /\ dp' = [dp EXCEPT ![o] = r.pp]
       /\ dp_out' = [op |-> "load_state", who |-> o, ok |-> r.ok, data |-> NoCall.data]
    /\ UNCHANGED <<dp_disk, nfits, storeVars, modelVars, trainerVars, rankVars, configVars>>

NextPre ==
    \/ \E o \in Fitted : \E d \in DataFor(TypeOf(o)) : DataPreprocessor_fit_transform(o, d)
    \/ \E o \in Objects : \E d \in DataFor(TypeOf(o)) : DataPreprocessor_transform(o, d)
    \/ \E o \in Fitted : save_state(o)
    \/ \E o \in Objects \ Fitted : load_state(o)

\* Two preprocessors of one model type, newly constructed, and an empty directory.
InitPre ==
    /\ fs = [temp |-> Absent, final |-> Absent, backup |-> Absent]
    /\ sv = [p \in Savers |-> SvIdle]
    /\ ld = LdIdle
    /\ nextId = 1
    /\ model = "PersonaModel"
    /\ pm = NewPersonaModel
    /\ pm_src = EmptyCache
    /\ pm_ret = [x \in Inputs |-> NoRet]
    /\ pm_disk = NoDisk
    /\ rm = NewRecommendationModel
    /\ out = NoOut
    /\ nextW = 1
    /\ \E t \in SUPPORTED_MODEL_TYPES :
         /\ dp = [o \in Objects |-> DataPreprocessor_init(t, o)]
         /\ dp_disk = NoFiles(t)
    /\ dp_out = NoCall
    /\ nfits = 0
    /\ tm_out = NoTrainCall
    /\ tm_calls = 0
    /\ mmr = NoSelection
    /\ cc = NoConfidence
    /\ cfg = NoConfig
    /\ cfg_out = NoConfigCall

SpecPre == InitPre /\ [][NextPre]_vars

\* ---- claims on the DataPreprocessor
\* The step is a call of op on a preprocessor (every call leaves its record in dp_out).
PreCall(op) == dp_out'.op = op

Uninitialized(pp) == pp.state.last_updated = 0

\* C11: transform on a preprocessor that never completed fit_transform and never
\* loaded a fitted state fails, and the preprocessor stays as it was (Uninitialized).
C11_TransformBeforeFitFails ==
    [][(PreCall("transform") /\ Uninitialized(dp[dp_out'.who])) =>
          /\ ~dp_out'.ok
          /\ dp'[dp_out'.who] = dp[dp_out'.who]]_vars

\* transform was refused on a preprocessor whose only fit_transform had raised.
C11_Witness ==
    /\ dp_out.op = "transform" /\ dp_out.who = "P" /\ ~dp_out.ok
    /\ Uninitialized(dp["P"]) /\ dp["P"].state.statistics.set

\* What a caller of transform(x) gets from preprocessor pp: success and rows.
Transformed(pp, x) == LET r == transform_outcome(pp, x) IN [ok |-> r.ok, rows |-> r.rows]

\* The last call was a load_state that returned True, from the files of one
\* save_state that returned True on a fitted preprocessor.
RoundTrip ==
    /\ dp_out.op = "load_state" /\ dp_out.ok
    /\ dp_disk.saved /\ ~Uninitialized(dp_disk.src)

FitOnly(t, d) == fit_transform_outcome(DataPreprocessor_init(t, "P"), d, 1).pp

\* C13: fit_transform overwrites what an earlier fit_transform learned: after a
\* second successful fit_transform(B), transform(X) gives for every X what a fresh
\* preprocessor of the model type gives that ran fit_transform(B) only.
C13_RefitOverwrites ==
    (dp_out.op = "fit_transform" /\ dp_out.ok /\ nfits >= 2) =>
        \A x \in DataFor(TypeOf(dp_out.who)) :
            Transformed(dp[dp_out.who], x)
                = Transformed(FitOnly(TypeOf(dp_out.who), dp_out.data), x)

\* C14: transform, whether it returns or raises, leaves the preprocessor's state
\* record and transformers unchanged (a transform result is a function of these two
\* and the input, so transform calls between two fits repeat their results).
C14_TransformReadsOnly ==
    [][PreCall("transform") =>
          /\ dp'[dp_out'.who].state = dp[dp_out'.who].state
          /\ dp'[dp_out'.who].transformers = dp[dp_out'.who].transformers]_vars

\* transform returned rows on a preprocessor that was fitted twice.
C14_Witness ==
    /\ dp_out.op = "transform" /\ dp_out.who = "P" /\ dp_out.ok
    /\ nfits >= 2 /\ ~Uninitialized(dp["P"])

\* Frame d has, in some categorical column, a label that no fit gave to the
\* category map pp holds for the column (or pp holds no map for the column).
UnseenLabel(pp, d) ==
    /\ d.kind = "frame"
    /\ \E f \in DOMAIN d.cat :
          \/ f \notin DOMAIN pp.transformers.categorical
          \/ \E i \in 1..Len(d.cat[f]) :
                d.cat[f][i] \notin Range(pp.transformers.categorical[f].classes)

\* The model types whose frames go through _process_recommendation_data.
RecommendationPipeline == {"recommendation", "sentiment"}

FrameMean(df) == SeqSum(NotNull(df[1].values)) \div Len(NotNull(df[1].values))

fitted_on(df) == [last_updated |-> TRUE, mean |-> FrameMean(df)]

train_model(df) ==
    /\ \/ /\ gate(df) # NoError
          /\ tm_out' = [op |-> "train_model", data |-> df, invoked |-> FALSE,
                        error |-> gate(df)]
          /\ UNCHANGED <<rm, nextW, tm_calls>>
       \/ /\ gate(df) = NoError
          /\ tm_calls < MaxCalls
          /\ tm_calls' = tm_calls + 1
          /\ \/ /\ model = "PersonaModel"
                /\ tm_out' = [op |-> "train_model", data |-> df, invoked |-> TRUE,
                              error |-> "train() missing 1 required positional argument"]
                /\ UNCHANGED <<rm, nextW>>
             \/ /\ model = "RecommendationModel"
                /\ \/ /\ tm_out' = [op |-> "train_model", data |-> df, invoked |-> TRUE,
                                    error |-> "Training failed"]
                      /\ \/ UNCHANGED <<rm, nextW>>
                         \/ /\ rm' = [rm EXCEPT !.pre = fitted_on(df)]
                            /\ UNCHANGED nextW
                         \/ /\ rm' = [rm EXCEPT !.pre = fitted_on(df), !.weights = nextW]
                            /\ nextW' = nextW + 1
                   \/ /\ tm_out' = [op |-> "train_model", data |-> df, invoked |-> TRUE,
                                    error |-> NoError]
                      /\ rm' = [rm EXCEPT !.pre = fitted_on(df), !.weights = nextW,
                                          !.is_trained = TRUE,
                                          !.training_iterations = @ + 1]
                      /\ nextW' = nextW + 1
    /\ UNCHANGED <<model, pm, pm_src, pm_ret, pm_disk, out, storeVars, dataVars,
                   rankVars, configVars>>

\* The preprocessor the trainer made for itself in __init__ (model_trainer.py 75).
Trainer == "trainer"

\* model_trainer.py 163-188, evaluate_model(validation_data): refused when the data
\* is empty (165-166); self.preprocessor.transform (169), which raises on the
\* trainer's preprocessor while that was never fitted; then model.predict and the
\* metrics (172-181), which return or raise.  Nothing is assigned.
evaluate_model(df) ==
    /\ \/ /\ empty(df)
          /\ tm_out' = [op |-> "evaluate_model", data |-> df, invoked |-> FALSE,
                        error |-> "Validation data cannot be empty"]
       \/ /\ ~empty(df)
          /\ ~dp[Trainer].last_updated
          /\ tm_out' = [op |-> "evaluate_model", data |-> df, invoked |-> FALSE,
                        error |-> "Preprocessor not fitted"]
       \/ /\ ~empty(df)
          /\ dp[Trainer].last_updated
          /\ \E error \in {NoError, "Evaluation failed"} :
                tm_out' = [op |-> "evaluate_model", data |-> df, invoked |-> TRUE,
                           error |-> error]
    /\ UNCHANGED <<storeVars, modelVars, dataVars, tm_calls, rankVars, configVars>>

NextTrainer ==
    \/ \E df \in TrainingFrames : train_model(df)
    \/ \E df \in TrainingFrames : evaluate_model(df)

\* A trainer of either kind of model, newly constructed.
InitTrainer ==
    /\ fs = [temp |-> Absent, final |-> Absent, backup |-> Absent]
    /\ sv = [p \in Savers |-> SvIdle]
    /\ ld = LdIdle
    /\ nextId = 1
    /\ model \in {"PersonaModel", "RecommendationModel"}
    /\ pm = NewPersonaModel
    /\ pm_src = EmptyCache
    /\ pm_ret = [x \in Inputs |-> NoRet]
    /\ pm_disk = NoDisk
    /\ rm = NewRecommendationModel
    /\ out = NoOut
    /\ nextW = 1
    /\ dp = [o \in {Trainer} |-> NewPreprocessor]
    /\ dp_disk = NoDirectory
    /\ dp_out = NoCall
    /\ nfits = 0
    /\ tm_out = NoTrainCall
    /\ tm_calls = 0
    /\ mmr = NoSelection
    /\ cc = NoConfidence
    /\ cfg = NoConfig
    /\ cfg_out = NoConfigCall

SpecTrainer == InitTrainer /\ [][NextTrainer]_vars

\* The data train_model must refuse: no row, a column with more than 10% of its
\* values missing, or a numerical column whose values are all equal.
NumericalDtypes == {"float64", "int64", "float32"}

ZeroVariance(col) == col.dtype \in NumericalDtypes /\ std_is_zero(col)

TooManyMissing(col) == 10 * Cardinality(IsNull(col.values)) > Len(col.values)

\* The message names a check that the data fails.
Identifies(msg, df) ==
    \/ msg = "Training data cannot be empty" /\ empty(df)
    \/ /\ msg = "Data contains too many missing values"
       /\ \E i \in 1..Len(df) : TooManyMissing(df[i])
    \/ /\ msg = "Zero variance in column"
       /\ \E i \in 1..Len(df) : ZeroVariance(df[i])

\* C18: train_model on an empty dataset, on one with a column whose missing-value
\* ratio exceeds 10%, or on one with a numerical column of zero variance never
\* invokes model.train, leaves the model as it was, and fails with a message that
\* names the failed check.
C18_GateBlocksDegenerateData ==
    [][(/\ tm_out'.op = "train_model"
        /\ \/ empty(tm_out'.data)
           \/ \E i \in 1..Len(tm_out'.data) :
                 TooManyMissing(tm_out'.data[i]) \/ ZeroVariance(tm_out'.data[i])) =>
          /\ ~tm_out'.invoked
          /\ Identifies(tm_out'.error, tm_out'.data)
          /\ rm' = rm /\ pm' = pm]_vars

\* ================================================= claims on load and save
\* The last call was a PersonaModel.load with verify_integrity=True that found the
\* model and model_state.npy, so that it came to the verification.
VerifiedLoad ==
    /\ PersonaCall("load") /\ out.verify
    /\ pm_disk.has_w /\ pm_disk.has_state

\* C21: load with verify_integrity=True runs one smoke-test inference on the loaded
\* predictor once the parts are loaded, and returns False whenever it raises.
C21_SmokeTestFailureReported ==
    VerifiedLoad =>
        /\ out.ran_predictor
        /\ out.raised => ~out.ok

\* A verified load whose smoke test raised on weights that a train had produced.
C21_Witness ==
    /\ VerifiedLoad /\ out.ran_predictor /\ out.raised /\ ~out.ok
    /\ pm.weights > 0

\* What predict(x, use_cache) of model m returns when the framework does not fail:
\* the cached pair under the key of x, else the thresholded output of the predictor
\* on the transformed input, or an exception when transform refuses.
Predicted(m, x, use_cache) ==
    IF use_cache /\ cache_key(x) \in DOMAIN m.cache
    THEN [ok |-> TRUE, pair |-> m.cache[cache_key(x)]]
    ELSE IF ~transform_ok(m.pre, x) THEN [ok |-> FALSE, pair |-> NoPair]
    ELSE [ok |-> TRUE,
          pair |-> apply_threshold(predictor(m.weights, transform(m.pre, x)))]

\* C22: a trained PersonaModel saved with save (returning True) and loaded into a
\* newly constructed PersonaModel: the new model predicts for every input what the
\* original predicts.
C22_SavedModelPredictsTheSame ==
    (PersonaCall("save") /\ out.ok /\ pm.training_iterations > 0) =>
        \A x \in Inputs, use_cache \in BOOLEAN :
            Predicted(loaded(NewPersonaModel, pm_disk), x, use_cache)
                = Predicted(pm, x, use_cache)

\* ============================ RecommendationModel._enhance_diversity
\* Largest pool (number of predictions) and largest n_recommendations.
MaxPool == 3

\* Relevances (predictions of the network) in hundredths.
Relevances == {30, 80}

\* Feature vectors with integer norms, the zero vector among them.
FeatureVectors == { <<1, 0>>, <<0, 1>>, <<3, 4>>, <<0, 0>> }

Dot(u, v) == u[1] * v[1] + u[2] * v[2]

\* np.linalg.norm of a feature vector.
Norm(v) == CHOOSE k \in 0..5 : k * k = Dot(v, v)

\* A float is not-a-number, minus infinity, or the fraction num/den of hundredths.
NaN == [kind |-> "nan", num |-> 0, den |-> 1]

NegInf == [kind |-> "-inf", num |-> 0, den |-> 1]

Float(num, den) == [kind |-> "float", num |-> num, den |-> den]

\* a > b on floats: False when either is NaN.
Greater(a, b) ==
    /\ a.kind = "float"
    /\ \/ b.kind = "-inf"
       \/ b.kind = "float" /\ a.num * b.den > b.num * a.den

RECURSIVE SumCos(_, _, _)
\* Sum over the selected vectors of the cosine similarity with fv, in hundredths.
SumCos(fv, sel, j) ==
    IF j > Len(sel) THEN 0
    ELSE (100 * Dot(fv, sel[j])) \div (Norm(fv) * Norm(sel[j])) + SumCos(fv, sel, j + 1)

\* recommendation_model.py 393-405, _calculate_diversity(feature_vector,
\* selected_features); selected_features None is the empty sequence here.
\*   396-397  1.0 when nothing is selected;
\*   399-403  the mean cosine similarity; a zero vector on either side makes a
\*            quotient 0/0, which numpy evaluates to nan, and so the mean;
\*   405      1 - mean.
calculate_diversity(fv, sel) ==
    IF sel = <<>> THEN Float(100, 1)
    ELSE IF Norm(fv) = 0 \/ \E j \in 1..Len(sel) : Norm(sel[j]) = 0 THEN NaN
    ELSE Float(100 * Len(sel) - SumCos(fv, sel, 1), Len(sel))

\* recommendation_model.py 382: lambda_param * relevance + (1 - lambda_param) *
\* diversity with lambda_param 0.5.
mmr_score(relevance, diversity) ==
    IF diversity.kind = "nan" THEN NaN
    ELSE Float(relevance * diversity.den + diversity.num, 2 * diversity.den)

\* best_idx of line 372 (-1 in the code, whose indexes start at 0).
NoIndex == 0

SelectedFeatures(features, selected) == [j \in 1..Len(selected) |-> features[selected[j]]]

\* A scan that lets a later candidate of equal score replace the best one.
RECURSIVE scan_keeps_last(_, _, _, _, _)
scan_keeps_last(pool, selected, i, best_score, best) ==
    IF i > Len(pool.predictions) THEN best
    ELSE IF \E j \in 1..Len(selected) : selected[j] = i
         THEN scan_keeps_last(pool, selected, i + 1, best_score, best)
         ELSE LET diversity == calculate_diversity(pool.features[i],
                                   SelectedFeatures(pool.features, selected))
                  score == mmr_score(pool.predictions[i], diversity)
              IN IF ~Greater(best_score, score) /\ score.kind = "float"
                 THEN scan_keeps_last(pool, selected, i + 1, score,
                           [idx |-> i, score |-> score, diversity |-> diversity])
                 ELSE scan_keeps_last(pool, selected, i + 1, best_score, best)

\* recommendation_model.py 374-386, the for loop of one iteration: candidates in
\* index order, a candidate replaces the best one only if its score is greater.
RECURSIVE scan(_, _, _, _, _)
scan(pool, selected, i, best_score, best) ==
    IF i > Len(pool.predictions) THEN best
    ELSE IF \E j \in 1..Len(selected) : selected[j] = i
         THEN scan(pool, selected, i + 1, best_score, best)
         ELSE LET diversity == calculate_diversity(pool.features[i],
                                   SelectedFeatures(pool.features, selected))
                  score == mmr_score(pool.predictions[i], diversity)
              IN IF Greater(score, best_score)
                 THEN scan(pool, selected, i + 1, score,
                           [idx |-> i, score |-> score, diversity |-> diversity])
                 ELSE scan(pool, selected, i + 1, best_score, best)

NoPick == [idx |-> NoIndex, score |-> NegInf, diversity |-> NaN]

Pools ==
    UNION { [predictions : [1..m -> Relevances], features : [1..m -> FeatureVectors]] :
              m \in 1..MaxPool }

\* A pool without a candidate (M == 0).
EmptyPool == [predictions |-> <<>>, features |-> <<>>]

\* recommendation_model.py 370-389, one iteration of the while loop: the scan, then
\* the append if a candidate was found.  An iteration that finds none leaves
\* selected_indices as it was, and so does every iteration after it: the loop spins.
enhance_diversity_iteration ==
    /\ mmr.pc = "while"
    /\ Len(mmr.selected) < mmr.n
    /\ LET best == scan(mmr.pool, mmr.selected, 1, NegInf, NoPick) IN
       IF best.idx # NoIndex
       THEN mmr' = [mmr EXCEPT !.selected = Append(@, best.idx),
                               !.picks = Append(@, best)]
       ELSE mmr' = [mmr EXCEPT !.pc = "spins"]
    /\ UNCHANGED <<storeVars, modelVars, dataVars, trainerVars, cc, configVars>>

\* recommendation_model.py 391: predictions[selected_indices].
enhance_diversity_return ==
    /\ mmr.pc = "while"
    /\ Len(mmr.selected) >= mmr.n
    /\ mmr' = [mmr EXCEPT !.pc = "returned",
                          !.result = [j \in 1..Len(mmr.selected) |->
                                         mmr.pool.predictions[mmr.selected[j]]]]
    /\ UNCHANGED <<storeVars, modelVars, dataVars, trainerVars, cc, configVars>>

NextRank == enhance_diversity_iteration \/ enhance_diversity_return

\* _enhance_diversity(predictions, features, n_recommendations) is entered (370-371).
InitRank ==
    /\ fs = [temp |-> Absent, final |-> Absent, backup |-> Absent]
    /\ sv = [p \in Savers |-> SvIdle]
    /\ ld = LdIdle
    /\ nextId = 1
    /\ model = "RecommendationModel"
    /\ pm = NewPersonaModel
    /\ pm_src = EmptyCache
    /\ pm_ret = [x \in Inputs |-> NoRet]
    /\ pm_disk = NoDisk
    /\ rm = NewRecommendationModel
    /\ out = NoOut
    /\ nextW = 1
    /\ dp = NoObjects
    /\ dp_disk = NoDirectory
    /\ dp_out = NoCall
    /\ nfits = 0
    /\ tm_out = NoTrainCall
    /\ tm_calls = 0
    /\ \E pool \in Pools \cup {EmptyPool}, n \in 1..MaxPool :
          mmr = [pc |-> "while", pool |-> pool, n |-> n, selected |-> <<>>,
                 picks |-> <<>>, result |-> <<>>]
    /\ cc = NoConfidence
    /\ cfg = NoConfig
    /\ cfg_out = NoConfigCall

SpecRank == InitRank /\ [][NextRank]_vars

\* The call is one of N items from a pool of M >= N.
PoolSuffices == mmr.pc # "none" /\ Len(mmr.pool.predictions) >= mmr.n

\* C23: selecting N items from a pool of M >= N ends with exactly N pool indexes,
\* no index twice; from a pool of one it selects that item, with diversity 1.0.
C23_SelectsExactlyN ==
    PoolSuffices =>
        /\ mmr.pc # "spins"
        /\ \A j, k \in 1..Len(mmr.selected) : mmr.selected[j] = mmr.selected[k] => j = k
        /\ mmr.pc = "returned" =>
              /\ Len(mmr.selected) = mmr.n
              /\ \A j \in 1..mmr.n : mmr.selected[j] \in 1..Len(mmr.pool.predictions)
              /\ Len(mmr.pool.predictions) = 1 =>
                    /\ mmr.selected = <<1>>
                    /\ mmr.picks[1].diversity = Float(100, 1)

\* The score of candidate i when the indexes of prefix are selected.
ScoreOf(i, prefix) ==
    mmr_score(mmr.pool.predictions[i],
              calculate_diversity(mmr.pool.features[i],
                                  SelectedFeatures(mmr.pool.features, prefix)))

SameFloat(a, b) == a.kind = "float" /\ b.kind = "float" /\ a.num * b.den = b.num * a.den

\* The candidates of pick k: the indexes not selected by the picks before it.
Candidates(k) ==
    {i \in 1..Len(mmr.pool.predictions) : \A j \in 1..(k - 1) : mmr.selected[j] # i}

\* C24: every pick of the diversity selection is a candidate of maximal score
\* 0.5*relevance + 0.5*diversity among those not yet chosen, the one of lowest
\* index among the candidates of that score; the first pick is the lowest-index
\* candidate of maximal relevance.
C24_PickMaximizesScore ==
    mmr.pc # "none" =>
        /\ \A k \in 1..Len(mmr.selected) :
              LET prefix == SubSeq(mmr.selected, 1, k - 1)
                  pick == mmr.selected[k]
              IN /\ pick \in Candidates(k)
                 /\ mmr.picks[k].score = ScoreOf(pick, prefix)
                 /\ \A i \in Candidates(k) :
                       /\ ~Greater(ScoreOf(i, prefix), ScoreOf(pick, prefix))
                       /\ SameFloat(ScoreOf(i, prefix), ScoreOf(pick, prefix)) => i >= pick
        /\ Len(mmr.selected) >= 1 =>
              \A i \in 1..Len(mmr.pool.predictions) :
                  /\ mmr.pool.predictions[i] <= mmr.pool.predictions[mmr.selected[1]]
                  /\ mmr.pool.predictions[i] = mmr.pool.predictions[mmr.selected[1]]
                        => i >= mmr.selected[1]

\* The selection returned after a second pick that had two candidates of the same
\* score, and took the first of them.
C24_Witness ==
    /\ mmr.pc = "returned" /\ Len(mmr.selected) >= 2
    /\ \E i \in Candidates(2) :
          /\ i > mmr.selected[2]
          /\ SameFloat(ScoreOf(i, SubSeq(mmr.selected, 1, 1)), mmr.picks[2].score)

\* ========================= RecommendationModel._calculate_confidence
\* Largest number of feature rows of a batch.
MaxBatch == 2

\* The predictions handed over (hundredths); their standard deviation is a whole
\* number of hundredths.
PredictionBatches == { <<50>>, <<20, 20>>, <<20, 80>>, <<10, 90>> }

\* Rows of processed features: standardized values, so of either sign.
FeatureRows == { <<1, 1>>, <<3, 1>>, <<0, 0>>, <<1, -1>>, <<-1, -1>>, <<-3, -1>> }

RECURSIVE Sum(_, _)
Sum(q, i) == IF i > Len(q) THEN 0 ELSE q[i] + Sum(q, i + 1)

\* np.std(predictions, axis=0): the population standard deviation in whole
\* hundredths, the greatest k with k^2 <= (1/n) sum (p - mean)^2, computed on n*p to
\* stay in the integers.
std(p) ==
    LET s2 == Sum([i \in 1..Len(p) |->
                     (Len(p) * p[i] - Sum(p, 1)) * (Len(p) * p[i] - Sum(p, 1))], 1)
        n3 == Len(p) * Len(p) * Len(p)
    IN CHOOSE k \in 0..100 : k * k * n3 <= s2 /\ (k + 1) * (k + 1) * n3 > s2

\* confidence_scores of line 414 for row i, times 100 * the row length:
\* (1 - prediction_std) * mean(features[i]).
raw_confidence(p, features, i) == (100 - std(p)) * Sum(features[i], 1)

RECURSIVE Max(_, _)
Max(q, i) == IF i = Len(q) THEN q[i] ELSE LET m == Max(q, i + 1) IN IF q[i] > m THEN q[i] ELSE m

\* numpy's a / b on floats: nan for 0/0, an infinity for x/0, no exception.
PosInf == [kind |-> "inf", num |-> 0, den |-> 1]

Divide(a, b) ==
    IF b = 0 THEN (IF a = 0 THEN NaN ELSE IF a > 0 THEN PosInf ELSE NegInf)
    ELSE IF b > 0 THEN Float(a, b) ELSE Float(-a, -b)

\* recommendation_model.py 407-415, _calculate_confidence(predictions, features):
\* the raw confidences divided by their maximum; nothing is raised.
calculate_confidence(p, features) ==
    LET raw == [i \in 1..Len(features) |-> raw_confidence(p, features, i)] IN
    [raised |-> FALSE,
     values |-> [i \in 1..Len(features) |-> Divide(raw[i], Max(raw, 1))]]

confidence_call ==
    /\ cc.pc = "called"
    /\ cc' = [cc EXCEPT !.pc = "returned",
                        !.result = calculate_confidence(cc.predictions, cc.features)]
    /\ UNCHANGED <<storeVars, modelVars, dataVars, trainerVars, mmr, configVars>>

NextConfidence == confidence_call

InitConfidence ==
    /\ fs = [temp |-> Absent, final |-> Absent, backup |-> Absent]
    /\ sv = [p \in Savers |-> SvIdle]
    /\ ld = LdIdle
    /\ nextId = 1
    /\ model = "RecommendationModel"
    /\ pm = NewPersonaModel
    /\ pm_src = EmptyCache
    /\ pm_ret = [x \in Inputs |-> NoRet]
    /\ pm_disk = NoDisk
    /\ rm = NewRecommendationModel
    /\ out = NoOut
    /\ nextW = 1
    /\ dp = NoObjects
    /\ dp_disk = NoDirectory
    /\ dp_out = NoCall
    /\ nfits = 0
    /\ tm_out = NoTrainCall
    /\ tm_calls = 0
    /\ mmr = NoSelection
    /\ \E p \in PredictionBatches :
       \E features \in UNION {[1..m -> FeatureRows] : m \in 1..MaxBatch} :
          cc = [pc |-> "called", predictions |-> p, features |-> features,
                result |-> [raised |-> FALSE, values |-> <<>>]]
    /\ cfg = NoConfig
    /\ cfg_out = NoConfigCall

SpecConfidence == InitConfidence /\ [][NextConfidence]_vars

InUnitInterval(f) == f.kind = "float" /\ f.num >= 0 /\ f.num <= f.den

\* C25: every confidence _calculate_confidence returns is in [0, 1] and the largest
\* of a batch is 1, whatever the sign of the feature means; a batch whose largest
\* raw confidence is 0 ends in an error, not in a division by zero.
C25_ConfidenceNormalized ==
    cc.pc = "returned" =>
        IF Max([i \in 1..Len(cc.features) |->
                   raw_confidence(cc.predictions, cc.features, i)], 1) = 0
        THEN cc.result.raised
        ELSE /\ ~cc.result.raised
             /\ \A i \in 1..Len(cc.result.values) : InUnitInterval(cc.result.values[i])
             /\ \E i \in 1..Len(cc.result.values) :
                   cc.result.values[i].kind = "float"
                   /\ cc.result.values[i].num = cc.result.values[i].den

predict_enhance_diversity ==
    /\ mmr.pc = "predict"
    /\ mmr' = [mmr EXCEPT !.pc = "while"]
    /\ UNCHANGED <<storeVars, modelVars, dataVars, trainerVars, cc, configVars>>

\* DataFrame.sort_values('score', ascending=False): rows by score, greatest first.
RECURSIVE sort_values(_)
sort_values(rows) ==
    IF rows = <<>> THEN <<>>
    ELSE LET top == CHOOSE i \in 1..Len(rows) :
                        \A j \in 1..Len(rows) :
                            rows[j].score < rows[i].score
                            \/ (rows[j].score = rows[i].score /\ j >= i)
         IN <<rows[top]>>
            \o sort_values([j \in 1..(Len(rows) - 1) |->
                               IF j < top THEN rows[j] ELSE rows[j + 1]])

head(rows, n) == SubSeq(rows, 1, IF n < Len(rows) THEN n ELSE Len(rows))

\* recommendation_model.py 302-309: the DataFrame of the selected scores and the
\* confidences, which pandas refuses when the columns differ in length, then the
\* sort and head(n_recommendations).
results(scores, confidence, n) ==
    IF Len(scores) # Len(confidence) THEN [raised |-> TRUE, rows |-> <<>>]
    ELSE [raised |-> FALSE,
          rows |-> head(sort_values([i \in 1..Len(scores) |->
                                        [recommendation_id |-> i - 1, score |-> scores[i],
                                         confidence |-> confidence[i]]]), n)]

\* recommendation_model.py 296-311: _calculate_confidence on the selected scores and
\* all processed rows (one confidence per processed row), then the results table.
predict_results ==
    /\ mmr.pc = "returned"
    /\ LET confidence == calculate_confidence(mmr.result, mmr.pool.features).values
           r == results(mmr.result, confidence, mmr.n)
       IN mmr' = [mmr EXCEPT !.pc = IF r.raised THEN "raised" ELSE "done",
                             !.results = r.rows]
    /\ UNCHANGED <<storeVars, modelVars, dataVars, trainerVars, cc, configVars>>

NextRecommend ==
    \/ predict_enhance_diversity
    \/ enhance_diversity_iteration
    \/ enhance_diversity_return
    \/ predict_results

\* predict(user_data, n_recommendations) of a trained model has its predictions
\* (286), one per row of user_data; n_recommendations is any positive number.
InitRecommend ==
    /\ fs = [temp |-> Absent, final |-> Absent, backup |-> Absent]
    /\ sv = [p \in Savers |-> SvIdle]
    /\ ld = LdIdle
    /\ nextId = 1
    /\ model = "RecommendationModel"
    /\ pm = NewPersonaModel
    /\ pm_src = EmptyCache
    /\ pm_ret = [x \in Inputs |-> NoRet]
    /\ pm_disk = NoDisk
    /\ rm = [NewRecommendationModel EXCEPT !.is_trained = TRUE]
    /\ out = NoOut
    /\ nextW = 1
    /\ dp = NoObjects
    /\ dp_disk = NoDirectory
    /\ dp_out = NoCall
    /\ nfits = 0
    /\ tm_out = NoTrainCall
    /\ tm_calls = 0
    /\ \E pool \in Pools, n \in 1..MaxPool :
          mmr = [pc |-> "predict", pool |-> pool, n |-> n, selected |-> <<>>,
                 picks |-> <<>>, result |-> <<>>, results |-> <<>>]
    /\ cc = NoConfidence
    /\ cfg = NoConfig
    /\ cfg_out = NoConfigCall

SpecRecommend == InitRecommend /\ [][NextRecommend]_vars

\* C26: predict(user_data, n_recommendations=n) on a trained model returns exactly
\* n rows, each with a score and a confidence, the scores in non-increasing order.
C26_PredictReturnsNRanked ==
    (mmr.pc # "none" /\ rm.is_trained) =>
        /\ mmr.pc \notin {"spins", "raised"}
        /\ mmr.pc = "done" =>
              /\ Len(mmr.results) = mmr.n
              /\ \A i \in 1..(Len(mmr.results) - 1) :
                    mmr.results[i].score >= mmr.results[i + 1].score

\* ============================================================ ModelConfig
\* A YAML value is a scalar or a mapping from keys to values.
Scalar(v) == [scalar |-> v]

Dict(items) == [items |-> items]

\* isinstance(value, dict)
IsDict(value) == "items" \in DOMAIN value

Keys(d) == DOMAIN d.items

MergeRaised == [raised |-> TRUE, value |-> Scalar(0)]

\* model_config.py 90-108, _merge_configs(base, override): base.copy() (an
\* AttributeError when base is a scalar), then for each item of override the
\* recursive merge when the value is a dict and the key is in the copy (104-105),
\* else the value itself (106-107).  Only the copy is assigned to.
RECURSIVE merge_configs(_, _)
merge_configs(base, override) ==
    IF ~IsDict(base) THEN MergeRaised
    ELSE LET recursive(key) == /\ key \in Keys(override)
                               /\ IsDict(override.items[key])
                               /\ key \in Keys(base)
             sub(key) == merge_configs(base.items[key], override.items[key])
         IN IF \E key \in Keys(override) : recursive(key) /\ sub(key).raised
            THEN MergeRaised
            ELSE [raised |-> FALSE,
                  value |-> Dict([key \in Keys(base) \cup Keys(override) |->
                                     IF key \notin Keys(override) THEN base.items[key]
                                     ELSE IF recursive(key) THEN sub(key).value
                                     ELSE override.items[key]])]

\* Keys and scalars of the mappings that are merged, nested one level deep.
MergeKeys == {"a", "b"}

MergeScalars == {Scalar(1), Scalar(2)}

Mappings(values) ==
    UNION {{Dict(items) : items \in [keys -> values]} : keys \in SUBSET MergeKeys}

NestedMappings == Mappings(MergeScalars \cup Mappings(MergeScalars))

\* One call of _merge_configs; base and override are the caller's objects, which
\* the call does not assign to.
merge_configs_call ==
    /\ cfg_out.op = "called"
    /\ LET r == merge_configs(cfg_out.base, cfg_out.override)
       IN cfg_out' = [cfg_out EXCEPT !.op = "_merge_configs",
                                     !.raised = r.raised, !.merged = r.value]
    /\ UNCHANGED <<storeVars, modelVars, dataVars, trainerVars, rankVars, cfg>>

NextMerge == merge_configs_call

InitMerge ==
    /\ fs = [temp |-> Absent, final |-> Absent, backup |-> Absent]
    /\ sv = [p \in Savers |-> SvIdle]
    /\ ld = LdIdle
    /\ nextId = 1
    /\ model = "RecommendationModel"
    /\ pm = NewPersonaModel
    /\ pm_src = EmptyCache
    /\ pm_ret = [x \in Inputs |-> NoRet]
    /\ pm_disk = NoDisk
    /\ rm = NewRecommendationModel
    /\ out = NoOut
    /\ nextW = 1
    /\ dp = NoObjects
    /\ dp_disk = NoDirectory
    /\ dp_out = NoCall
    /\ nfits = 0
    /\ tm_out = NoTrainCall
    /\ tm_calls = 0
    /\ mmr = NoSelection
    /\ cc = NoConfidence
    /\ cfg = NoConfig
    /\ \E base \in NestedMappings, override \in NestedMappings :
          cfg_out = [op |-> "called", base |-> base, override |-> override,
                     passed |-> <<base, override>>, raised |-> FALSE,
                     merged |-> Scalar(0)]

SpecMerge == InitMerge /\ [][NextMerge]_vars

\* The value the merged mapping is to have under key.
Expected(base, override, key) ==
    IF key \notin Keys(override) THEN base.items[key]
    ELSE IF IsDict(override.items[key]) /\ key \in Keys(base) /\ IsDict(base.items[key])
         THEN merge_configs(base.items[key], override.items[key]).value
         ELSE override.items[key]

\* C30: _merge_configs(base, override) never fails on nested mappings and returns
\* the override's value for each key whose override value is a scalar or whose
\* base value is not a mapping, the recursive merge for each key that is a mapping
\* in both, and the base's value for each key absent from the override; base and
\* override are left as they were passed.
C30_MergeOverridePrecedence ==
    cfg_out.op = "_merge_configs" =>
        /\ ~cfg_out.raised
        /\ <<cfg_out.base, cfg_out.override>> = cfg_out.passed
        /\ IsDict(cfg_out.merged)
        /\ Keys(cfg_out.merged) = Keys(cfg_out.base) \cup Keys(cfg_out.override)
        /\ \A key \in Keys(cfg_out.merged) :
              cfg_out.merged.items[key] = Expected(cfg_out.base, cfg_out.override, key)

\* ------------------------------------------------- ModelConfig, the getters
\* Calls made on one ModelConfig.
MaxGets == 3

\* The cache keys of the four getters (model_config.py 121, 141, 161, 181).
Getters == {"recommendation", "nlp", "sentiment", "anomaly"}

\* The key of self.config each getter reads (123, 143, 163, 183).
section(getter) ==
    CASE getter = "recommendation" -> "recommendation_model"
      [] getter = "nlp" -> "nlp_model"
      [] getter = "sentiment" -> "sentiment_model"
      [] getter = "anomaly" -> "anomaly_model"

\* model_config.py 190-212, the keys each validator requires.
required_keys(getter) ==
    CASE getter = "recommendation" ->
             {"model_architecture", "hyperparameters", "training_settings"}
      [] getter = "nlp" -> {"model_architecture", "tokenizer_settings", "training_parameters"}
      [] getter = "sentiment" ->
             {"model_settings", "quantization_parameters", "inference_settings"}
      [] getter = "anomaly" -> {"algorithm_settings", "detection_thresholds", "update_frequency"}

\* The key a section of the files may lack.
Dropped(getter) ==
    CASE getter = "recommendation" -> "training_settings"
      [] getter = "nlp" -> "training_parameters"
      [] getter = "sentiment" -> "inference_settings"
      [] getter = "anomaly" -> "update_frequency"

\* base.yml: each section absent, without one required key, or with all of them.
BaseConfigs ==
    {Dict([g \in present |-> Dict([key \in required_keys(
                                       CHOOSE getter \in Getters : section(getter) = g)
                                       \ (IF g \in partial
                                          THEN {Dropped(CHOOSE getter \in Getters :
                                                            section(getter) = g)}
                                          ELSE {}) |-> Scalar(1)])]) :
        present \in SUBSET {section(getter) : getter \in Getters},
        partial \in SUBSET {section("recommendation"), section("nlp")}}

\* No config.yml for the environment.
NoFile == Scalar(0)

\* config.yml of the environment: absent, or overrides of the recommendation
\* section.
EnvConfigs ==
    {NoFile,
     Dict([g \in {"recommendation_model"} |->
              Dict([key \in {"hyperparameters", "training_settings"} |-> Scalar(2)])])}

\* model_config.py 70-88, _load_base_config: base.yml, merged with the
\* environment's config.yml when that file exists.
load_base_config(base, env_config) ==
    IF env_config = NoFile THEN [raised |-> FALSE, value |-> base]
    ELSE merge_configs(base, env_config)

\* An object a getter hands out: which dict it is, and 0 for the dict itself.
Object(object, copy) == [object |-> object, copy |-> copy]

NoObject == Object("none", 0)

\* The dict that self.config.get(section, {}) makes when the section is absent.
Default == "{}"

\* A getter that returns a copy made by the call.
returned_copy(object, call) == Object(object, call)

\* model_config.py 128: return self._cache[cache_key], the cached dict itself.
returned(object, call) == Object(object, 0)

\* A validator that accepts any section that has a key.
validate_any_key(getter, keys) == keys # {}

\* model_config.py 190-212, _validate_*_config: all(key in config for key in
\* required_keys).
validate(getter, keys) == required_keys(getter) \subseteq keys

\* model_config.py 193, 199, 205, 211: the ConfigValidationError, whose message
\* prints the set required_keys.
ConfigValidationError(getter) ==
    [type |-> "ConfigValidationError", named |-> required_keys(getter)]

NoException == [type |-> "none", named |-> {}]

\* model_config.py 110-128 (and 130-148, 150-168, 170-188): lru_cache returns what
\* an earlier call of the getter on this ModelConfig returned; else the body reads
\* _cache, and on a miss takes the section of self.config, validates it (raising
\* on a missing key, which caches nothing) and stores it in _cache.
cached_getter(c, getter) ==
    IF getter \in DOMAIN c.lru
    THEN [ok |-> TRUE, object |-> c.lru[getter], cfg |-> c, error |-> NoException]
    ELSE IF getter \in DOMAIN c.cache
    THEN [ok |-> TRUE, object |-> c.cache[getter], error |-> NoException,
          cfg |-> [c EXCEPT !.lru = [g \in DOMAIN c.lru \cup {getter} |->
                                        IF g = getter THEN c.cache[getter] ELSE c.lru[g]]]]
    ELSE LET config == IF section(getter) \in Keys(c.config)
                       THEN section(getter) ELSE Default
             keys == IF config = Default THEN {} ELSE Keys(c.config.items[config])
         IN IF ~validate(getter, keys)
            THEN [ok |-> FALSE, object |-> "none", cfg |-> c,
                  error |-> ConfigValidationError(getter)]
            ELSE [ok |-> TRUE, object |-> config, error |-> NoException,
                  cfg |-> [c EXCEPT
                      !.cache = [g \in DOMAIN c.cache \cup {getter} |->
                                    IF g = getter THEN config ELSE c.cache[g]],
                      !.lru = [g \in DOMAIN c.lru \cup {getter} |->
                                  IF g = getter THEN config ELSE c.lru[g]]]]

NoRecord == Dict([key \in {} |-> Scalar(0)])

\* One call of get_recommendation_config, get_nlp_config, get_sentiment_config or
\* get_anomaly_config by a model, preprocessor or trainer that holds the
\* ModelConfig; first keeps what the first successful call of each getter returned.
get_config(getter) ==
    /\ cfg.loaded
    /\ cfg.calls < MaxGets
    /\ LET r == cached_getter(cfg, getter)
           object == returned(r.object, cfg.calls + 1)
       IN /\ cfg' = [r.cfg EXCEPT
                        !.calls = cfg.calls + 1,
                        !.first = IF r.ok /\ cfg.first[getter] = NoObject
                                  THEN [cfg.first EXCEPT ![getter] = object]
                                  ELSE cfg.first]
          /\ cfg_out' = [op |-> "get_config", getter |-> getter, ok |-> r.ok,
                         error |-> r.error,
                         again |-> /\ cfg_out.op = "get_config"
                                   /\ cfg_out.getter = getter
                                   /\ ~cfg_out.ok,
                         hit |-> getter \in DOMAIN cfg.lru,
                         returned |-> IF r.ok THEN object ELSE NoObject,
                         record |-> IF r.ok THEN cfg.config.items[r.object] ELSE NoRecord]
    /\ UNCHANGED <<storeVars, modelVars, dataVars, trainerVars, rankVars>>

\* custom_config of PersonaModel.__init__: None, an override of a required key, a
\* new key.
NoCustomConfig == NoRecord

CustomConfigs ==
    {NoCustomConfig,
     Dict([key \in {"hyperparameters"} |-> Scalar(3)]),
     Dict([key \in {"inference_settings"} |-> Scalar(3)])}

\* dict.update(other) on the dict itself.
dict_update(d, other) ==
    Dict([key \in Keys(d) \cup Keys(other) |->
             IF key \in Keys(other) THEN other.items[key] ELSE d.items[key]])

\* persona_model.py 57-61, PersonaModel.__init__(env, custom_config): the model
\* makes its ModelConfig, takes the record of get_recommendation_config and, when
\* custom_config is given, calls update(custom_config) on that record.
PersonaModel_init(custom_config) ==
    /\ cfg.loaded
    /\ cfg.calls = 0
    /\ LET r == cached_getter(cfg, "recommendation")
           object == returned(r.object, 1)
           record == IF ~r.ok THEN NoRecord
                     ELSE IF custom_config = NoCustomConfig THEN cfg.config.items[r.object]
                     ELSE dict_update(cfg.config.items[r.object], custom_config)
       IN /\ cfg' = IF ~r.ok THEN [cfg EXCEPT !.calls = 1]
                    ELSE [r.cfg EXCEPT !.calls = 1,
                                       !.first["recommendation"] = object,
                                       !.config.items[r.object] = record]
          /\ cfg_out' = [op |-> "PersonaModel", getter |-> "recommendation", ok |-> r.ok,
                         error |-> r.error, again |-> FALSE, hit |-> FALSE,
                         returned |-> IF r.ok THEN object ELSE NoObject,
                         record |-> record]
    /\ UNCHANGED <<storeVars, modelVars, dataVars, trainerVars, rankVars>>

NextConfig ==
    \/ \E getter \in Getters : get_config(getter)
    \/ \E custom_config \in CustomConfigs : PersonaModel_init(custom_config)

\* A ModelConfig after __init__ (46-68) loaded its files without raising: _cache
\* empty, no getter called.
InitConfig ==
    /\ fs = [temp |-> Absent, final |-> Absent, backup |-> Absent]
    /\ sv = [p \in Savers |-> SvIdle]
    /\ ld = LdIdle
    /\ nextId = 1
    /\ model = "PersonaModel"
    /\ pm = NewPersonaModel
    /\ pm_src = EmptyCache
    /\ pm_ret = [x \in Inputs |-> NoRet]
    /\ pm_disk = NoDisk
    /\ rm = NewRecommendationModel
    /\ out = NoOut
    /\ nextW = 1
    /\ dp = NoObjects
    /\ dp_disk = NoDirectory
    /\ dp_out = NoCall
    /\ nfits = 0
    /\ tm_out = NoTrainCall
    /\ tm_calls = 0
    /\ mmr = NoSelection
    /\ cc = NoConfidence
    /\ \E base \in BaseConfigs, env_config \in EnvConfigs :
          /\ ~load_base_config(base, env_config).raised
          /\ cfg = [loaded |-> TRUE,
                    config |-> load_base_config(base, env_config).value,
                    loaded_config |-> load_base_config(base, env_config).value,
                    cache |-> [g \in {} |-> Default],
                    lru |-> [g \in {} |-> Default],
                    first |-> [g \in Getters |-> NoObject],
                    calls |-> 0]
    /\ cfg_out = NoConfigCall

SpecConfig == InitConfig /\ [][NextConfig]_vars

C29_RecordImmutableAfterLoad ==
    (cfg_out.op = "get_config" /\ cfg_out.getter = "recommendation" /\ cfg_out.ok) =>
        cfg_out.record = cfg.loaded_config.items[section("recommendation")]

\* The required keys the getter's section of self.config lacks (all of them when
\* the section is absent).
MissingKeys(c, getter) ==
    IF section(getter) \in Keys(c.config)
    THEN required_keys(getter) \ Keys(c.config.items[section(getter)])
    ELSE required_keys(getter)

ModelPreprocessor == IF model = "RecommendationModel" THEN rm.pre ELSE pm.pre

\* C32: the trainer's own preprocessor and its model's preprocessor are in the same
\* fitted state in every state of a ModelTrainer: after a successful train_model
\* the trainer's preprocessor is fitted with the parameters of that training, and
\* evaluate_model on the trained model does not fail as unfitted.
C32_TrainerPreprocessorFollowsModel ==
    Trainer \in DOMAIN dp =>
        /\ dp[Trainer].last_updated = ModelPreprocessor.last_updated
        /\ (tm_out.op = "train_model" /\ tm_out.error = NoError) =>
               dp[Trainer] = ModelPreprocessor
        /\ (tm_out.op = "evaluate_model" /\ rm.is_trained) =>
               tm_out.error # "Preprocessor not fitted"

\* C33: a PersonaModel.train call that fails, at preprocessing or at the
\* predictor's fit, leaves the model state, the prediction cache and the
\* preprocessor's fitted parameters exactly as before the call.
C33_FailedTrainChangesNothing ==
    [][(model = "PersonaModel" /\ out'.op = "train" /\ ~out'.ok) => pm' = pm]_vars

\* C37: a fit_transform that fails on an Uninitialized preprocessor leaves it
\* Uninitialized, and one that fails on a Fitted preprocessor leaves the fitted
\* parameters and the statistics unchanged.
C37_FailedFitKeepsState ==
    [][(PreCall("fit_transform") /\ ~dp_out'.ok) =>
          LET before == dp[dp_out'.who]
              after == dp'[dp_out'.who]
          IN IF Uninitialized(before)
             THEN Uninitialized(after)
             ELSE /\ after.transformers = before.transformers
                  /\ after.state.statistics = before.state.statistics]_vars

\* The call of _enhance_diversity is a sequential loop: while an iteration or the
\* return can be taken, it is taken.
SpecRankFair == SpecRank /\ WF_vars(NextRank)

\* C34: _enhance_diversity terminates for every pool size M and every requested
\* count N, N > M and M == 0 included.
C34_EnhanceDiversityTerminates == <>(mmr.pc = "returned")

\* C35: a backup directory that is on disk when save_model begins (left by a crash
\* between the renames or by an earlier save_model of the version) does not stop
\* the call: with every write step succeeding it returns True and its bundle is
\* under the final path.
C35_BackupDoesNotBlockSave ==
    [][\A p \in Savers :
          (SaveReturns(p) /\ ~sv'[p].wfail /\ sv[p].had_backup) =>
              /\ sv'[p].result = "true"
              /\ Complete(fs'.final) /\ fs'.final.w = sv[p].id]_vars

\* ------------------------------------------------ overlapping save_model calls
\* Number of save_model calls the two processes start between them.
MaxOverlap == 2

\* Two processes call save_model for the version; each step of one may come between
\* two steps of the other.  Both use temp_<version> (model_trainer.py 205).
NextStoreConcurrent ==
    \/ \E p \in Savers : nextId <= MaxOverlap /\ save_model_begin(p, TRUE)
    \/ \E p \in Savers : save_model_weights(p)
    \/ \E p \in Savers : save_model_model_preprocessor(p)
    \/ \E p \in Savers : save_model_model_state(p)
    \/ \E p \in Savers : save_model_preprocessor(p)
    \/ \E p \in Savers : save_model_metadata(p)
    \/ \E p \in Savers : save_model_write_no_dir(p)
    \/ \E p \in Savers : save_model_check_final(p)
    \/ \E p \in Savers : save_model_rename_backup(p)
    \/ \E p \in Savers : save_model_rename_final(p)
    \/ \E p \in Savers : save_model_check_backup(p)
    \/ \E p \in Savers : save_model_remove_backup(p)

SpecStoreConcurrent == InitStore /\ [][NextStoreConcurrent]_vars

\* C36: with save_model calls of two processes overlapping, what is visible under
\* the final path is a bundle whose parts were all written by one save_model call,
\* and a call returns True only if the bundle it renamed to the final path was
\* its own.
C36_ConcurrentSavesPublishOneBundle ==
    [][/\ fs'.final.exists => Complete(fs'.final)
       /\ \A p \in Savers :
             (SaveReturns(p) /\ sv'[p].result = "true") => sv[p].published]_vars

\* C38: on a RecommendationModel that has never completed train, predict and update
\* fail with an error and change no model state: is_trained stays false,
\* training_iterations and update_history are as before.
C38_UntrainedModelRefusesCalls ==
    [][(model = "RecommendationModel" /\ ~rm.is_trained
           /\ out'.op \in {"predict", "update"}) =>
          /\ ~out'.ok
          /\ ~rm'.is_trained
          /\ rm'.training_iterations = rm.training_iterations
          /\ rm'.update_history = rm.update_history]_vars

====
